---- MODULE Spec2Model ----
(***************************************************************************)
(* Verification model of the bdfz automation scripts:                      *)
(*   - attendance_script_robust.py : retry_on_exception decorator, main    *)
(*   - saa.py                      : process_day, run_date_range_task, main*)
(*   - bjeea_watch.py              : handle_section, load/save state       *)
(*   - ipmenu.py                   : single-instance lock, IP history,     *)
(*                                   quality monitor, switches, ASN db     *)
(* Each script is a standalone program; each gets its own specification    *)
(* over the shared variable tuple (the other scripts' variables stay at    *)
(* their initial values).                                                  *)
(***************************************************************************)
EXTENDS Integers, Sequences, FiniteSets, TLC

VARIABLES
    \* ---- retry_on_exception.wrapper (attendance_script_robust.py) ----
    rpc,                  \* "idle" | "loop" | "returned" | "raised"
    cfg,                  \* decorator arguments and call shape
    attempts,             \* local `attempts`
    calls,                \* number of invocations of func in this wrapper call
    session_invalid_flag, \* local `session_invalid_flag`
    outerFlag,            \* outer_kwargs_ref['__session_invalid_flag__']
    recvFlag,             \* kwargs_received_by_wrapper['__session_invalid_flag__']
    sleeps,               \* arguments of time.sleep, in order, this wrapper call
    saves,                \* values of `attempts` at each save_error_artifacts call
    last,                 \* record of the last loop iteration
    allListed,            \* every invocation so far raised a listed exception
    raisedExc,            \* exception that left the wrapper
    \* ---- main (attendance_script_robust.py) ----
    mpc,                  \* "off" | "start" | step being run | "exited"
    driver,               \* `driver` is not None
    final_success,
    process_status_str,
    verify_status_bool,
    main_flag,            \* main's local `session_invalid_flag`
    exit_status,          \* -1 while running, else the process exit status
    procReturned,         \* value process_attendance returned ("none": it did not)
    verifyReturned,       \* "none" | "True" | "False": what verify_attendance returned
    verifyCalls,          \* number of calls of verify_attendance
    stepRaised,           \* a step raised into main: name of the step, or "none"
    procExc,              \* the exception that left process_attendance (NoExc: none)
    \* ---- saa.py: the attendance server, as seen through the API ----
    schedule,             \* date -> lessons of the personal calendar (type 'lesson')
    srvChecked,           \* attendance_time_ids the server reports as checked
    srvPending,           \* ids the server may start to report as checked
    \* ---- saa.py: process_day ----
    pdpc,                 \* "idle" | "fetch" | "check" | "submit" | "poll" | "done"
    pdDate,               \* current_date
    scheduled_lessons,
    initial_checked_ids,
    lessons_to_submit_raw,
    groups_left,          \* keys of groups_to_submit not yet submitted
    attempted_attendance_time_ids,
    submission_results,   \* <<group id, result>> for the groups submitted so far
    pollSets,             \* the sets returned by the verification polls, in order
    final_checked_ids,
    pdStatus,             \* status returned by process_day ("none" while running)
    putIds,               \* attendance_time_ids sent in a PUT during this call
    checkedAtEntry,       \* srvChecked when this call of process_day began
    prevAtEntry,          \* status the previous process_day returned for the same
                          \* date to this process ("none": there was none)
    \* ---- saa.py: main and run_date_range_task ----
    spc,                  \* "off" | "start" | "day" | "range" | "exited"
    choice,               \* the mode chosen: "1", "2", "3" ("none" before)
    start_date,
    end_date,
    current_date,
    last_processed,       \* what _load_state returned to this run (0: None)
    stateFile,            \* last_processed_date in STATE_FILE (0: no file)
    processed,            \* dates handed to process_day by this run, in order
    results,              \* <<date, status>> of the days processed by this run
    sExit,                \* exit status of saa.py (-1 while running)
    runs,                 \* number of runs of the script so far
    \* ---- bjeea_watch.py ----
    wpc,                  \* "off" | "start" | "hk" | "between" | "gkgz" | "exited"
    site,                 \* section -> hrefs of its index page, in page order
    wFile,                \* state file: section -> seen_urls
    wState,               \* `state` in memory: section -> seen_urls
    new_urls,             \* URLs of the current section still to be posted
    posted,               \* URLs of the replies created in the topic, in order
    wExit,                \* exit status of bjeea_watch.py (-1 while running)
    wRuns,                \* number of runs of the watcher so far
    pubDate,              \* article href -> day the site published it
    runPosted,            \* URLs of the replies created by the current run, in order
    \* ---- attendance_script_robust.py: the loop of process_attendance ----
    cpc,                  \* "off" | "start" | "loop" | "done"
    cards,                \* courses with a valid record button, in page order
    initial_buttons,      \* the courses of visible_record_buttons, in page order
    loop_i,               \* iterations of the for loop begun so far
    processed_successfully_count,
    clicked,              \* courses whose record button the loop tried to click
    loopEnd,              \* "none" | "return" | "exhausted" | "break" | "raise"
    \* ---- ipmenu.py: processes and /tmp/ipmenu.lock ----
    proc,                 \* process -> "idle" | "opened" | "locked" | "app" | "exited"
    lockHolder,           \* the processes holding a flock on /tmp/ipmenu.lock
    refused,              \* processes whose flock call raised BlockingIOError
    \* ---- ipmenu.py: IPHistoryTracker and fetch_public ----
    tpc,                  \* "off" | "tracker" | "start" | "app"
    max_entries,
    history,              \* ips of self.history, oldest first
    histFile,             \* ips of HISTORY_FILE, oldest first (<<>>: no file)
    lastAdd,              \* the last add_entry call: ip, history and file before it
    tracking,             \* self.ip_history is not None
    last_public_v4,       \* 0: None
    successes,            \* successful public-IP fetches since the app started
    track_ip_history,     \* self.cfg["track_ip_history"]
    imported_history,     \* track_ip_history of the last imported file ("none": not in
                          \* the file, or toggled since)
    \* ---- ipmenu.py: the quality monitor, its threads and the main thread ----
    enable_ping_monitor,  \* self.cfg["enable_ping_monitor"]
    imported_ping,        \* enable_ping_monitor of the last imported file ("none": not
                          \* in the file, or toggled since)
    quality_monitor,      \* self.quality_monitor is not None
    latencies,            \* number of samples in quality_monitor.latencies
    quality_last_stats,   \* self._quality_last_stats (0: None, else samples)
    quality_dirty,        \* self._quality_dirty is set
    quality_lock,         \* holder of self._quality_lock (Unlocked, MainThread or a probe thread)
    item_quality,         \* title of the quality menu item (0: "Quality: -")
    probePc,              \* probe thread -> position in _quality_probe_bg
    probeStats,           \* probe thread -> its local `stats`
    tick,                 \* position of the main thread ("idle": in the run loop)
    tickStats,            \* local `stats` of on_tick
    titleWriters,         \* <<thread, function>> of every write of item_quality.title
    \* ---- ipmenu.py: NetworkQualityMonitor.update and its clock ----
    now,                  \* time.time(), in units of 1/Window second
    last_check,           \* quality_monitor._last_check
    updPc,                \* thread -> position in update
    pings,                \* <<thread, time>> of every ping that was run
    \* ---- ipmenu.py: the offline ASN database ----
    tsv,                  \* the ranges of the TSV file, in file order
    v4,                   \* ASNDB.v4
    v4_keys,              \* ASNDB.v4_keys
    v6,                   \* ASNDB.v6
    v6_keys,              \* ASNDB.v6_keys
    loaded,               \* ASNDB.loaded
    loads,                \* number of calls of ASNDB.load
    \* ---- ipmenu.py: ensure_sapdb and _sap_lock ----
    sapPc,                \* thread -> position in ensure_sapdb
    sap_lock,             \* holder of _sap_lock (Unlocked or a thread)
    sapLog,               \* thread -> what its last call did
    \* ---- saa.py: SeiueAPIClient._with_refresh ----
    rfpc,                 \* position in _with_refresh
    responses,            \* status codes of the responses of request_fn, in order
    reauths,              \* number of calls of _re_auth
    auth_attempts,        \* number of _auth_flow_with_username calls
    login_ok,             \* result of _re_auth
    returned,             \* index in `responses` of the response returned (0: none)
    rfCalls               \* number of _with_refresh calls so far

retryVars == <<rpc, cfg, attempts, calls, session_invalid_flag, outerFlag,
               recvFlag, sleeps, saves, last, allListed, raisedExc>>

mainVars == <<mpc, driver, final_success, process_status_str, verify_status_bool,
              main_flag, exit_status, procReturned, verifyReturned, verifyCalls,
              stepRaised, procExc>>

serverVars == <<schedule, srvChecked, srvPending>>

dayVars == <<pdpc, pdDate, scheduled_lessons, initial_checked_ids, lessons_to_submit_raw,
             groups_left, attempted_attendance_time_ids, submission_results, pollSets,
             final_checked_ids, pdStatus, putIds, checkedAtEntry, prevAtEntry>>

rangeVars == <<spc, choice, start_date, end_date, current_date, last_processed,
               stateFile, processed, results, sExit, runs>>

saaVars == <<serverVars, dayVars, rangeVars>>

watchVars == <<wpc, site, wFile, wState, new_urls, posted, wExit, wRuns,
               pubDate, runPosted>>

courseVars == <<cpc, cards, initial_buttons, loop_i, processed_successfully_count,
                clicked, loopEnd>>

lockVars == <<proc, lockHolder, refused>>

trackerVars == <<tpc, max_entries, history, histFile, lastAdd, tracking,
                 last_public_v4, successes, track_ip_history, imported_history>>

qualityVars == <<enable_ping_monitor, imported_ping, quality_monitor, latencies, quality_last_stats, quality_dirty,
                 quality_lock, item_quality, probePc, probeStats, tick, tickStats,
                 titleWriters>>

menuVars == <<lockVars, trackerVars, qualityVars>>

rateVars == <<now, last_check, updPc, pings>>

asnVars == <<tsv, v4, v4_keys, v6, v6_keys, loaded, loads>>

sapVars == <<sapPc, sap_lock, sapLog>>

refreshVars == <<rfpc, responses, reauths, auth_attempts, login_ok, returned, rfCalls>>

\* the variables of the parts that have a specification of their own
partVars == <<rateVars, asnVars, sapVars, refreshVars>>

attendanceVars == <<retryVars, mainVars>>

\* the variables other than those of the wrapper and of main
notAttendanceVars == <<saaVars, watchVars, courseVars, menuVars, partVars>>

\* the variables of the scripts other than saa.py
notSaaVars == <<retryVars, mainVars, watchVars, courseVars, menuVars, partVars>>

\* the variables of the scripts other than bjeea_watch.py
notWatchVars == <<retryVars, mainVars, saaVars, courseVars, menuVars, partVars>>

\* the variables other than those of the loop of process_attendance
notCourseVars == <<retryVars, mainVars, saaVars, watchVars, menuVars, partVars>>

\* the variables other than those of the parts
notPartVars == <<retryVars, mainVars, saaVars, watchVars, courseVars, menuVars>>

\* the variables of the scripts other than ipmenu.py, and of the parts
notMenuVars == <<retryVars, mainVars, saaVars, watchVars, courseVars, partVars>>

vars == <<retryVars, mainVars, saaVars, watchVars, courseVars, menuVars, partVars>>

(***************************************************************************)
(* Bounds                                                                  *)
(***************************************************************************)
MaxRetries == 3

(***************************************************************************)
(* Exceptions: selenium's hierarchy and the session-invalid messages       *)
(***************************************************************************)
SeleniumTypes == {"WebDriverException", "TimeoutException",
                  "StaleElementReferenceException",
                  "ElementClickInterceptedException",
                  "InvalidSessionIdException"}

\* RequestException (requests) and Exception stand for the non-selenium ones
ExcTypes == SeleniumTypes \cup {"RequestException", "Exception"}

InvalidSessionMsgs == {"invalid session id", "session deleted",
                       "chrome not reachable", "no such execution context",
                       "target window already closed"}

NoExc == [type |-> "none", msg |-> "none"]

\* exceptions a wrapped function (or driver.title) can raise
Excs == [type : ExcTypes, msg : {"element not interactable"}]
        \cup [type : {"WebDriverException", "TimeoutException"}, msg : InvalidSessionMsgs]

\* isinstance(e, T): every selenium exception derives from WebDriverException
IsInstance(t, T) ==
    \/ t = T
    \/ T = "WebDriverException" /\ t \in SeleniumTypes
    \/ T = "Exception" /\ t \in ExcTypes

\* `except exceptions as e`
Caught(e, exceptions) == \E T \in exceptions : IsInstance(e.type, T)

HasSessionMsg(m) == m \in InvalidSessionMsgs

IsInvalidSession_NoMsg(e) == e.type = "InvalidSessionIdException"

\* is_invalid_session, lines 137-143
IsInvalidSession(e) ==
    \/ IsInstance(e.type, "InvalidSessionIdException")
    \/ IsInstance(e.type, "WebDriverException") /\ HasSessionMsg(e.msg)

\* the `_ = driver_instance.title` probe, lines 145-159: TRUE iff the probe
\* raised an exception that marks the session invalid
TitleCheckInvalid(t) ==
    /\ t # NoExc
    /\ \/ IsInstance(t.type, "InvalidSessionIdException")
       \/ IsInstance(t.type, "WebDriverException") /\ HasSessionMsg(t.msg)

\* what `driver_instance.title` can do: succeed, or raise a WebDriverException
\* (possibly the InvalidSessionIdException subclass)
TitleOutcomes == {NoExc} \cup {e \in Excs : e.type \in {"WebDriverException",
                                                       "InvalidSessionIdException"}}

(***************************************************************************)
(* The decorators of the script (retries, delay, exceptions, args[0])     *)
(***************************************************************************)
DefaultExceptions == {"TimeoutException", "StaleElementReferenceException",
                      "ElementClickInterceptedException", "WebDriverException"}

Decorators ==
    { [name |-> "get_webdriver", retries |-> 2, delay |-> 5,
       exceptions |-> {"WebDriverException"}, hasDriver |-> FALSE],
      [name |-> "login", retries |-> 2, delay |-> 10,
       exceptions |-> {"TimeoutException", "WebDriverException"}, hasDriver |-> TRUE],
      [name |-> "click_login_button_with_retry", retries |-> 1, delay |-> 2,
       exceptions |-> {"TimeoutException", "ElementClickInterceptedException",
                       "StaleElementReferenceException"}, hasDriver |-> FALSE],
      [name |-> "skip_phone_binding", retries |-> 1, delay |-> 3,
       exceptions |-> DefaultExceptions, hasDriver |-> TRUE] }

Decorator(n) == CHOOSE d \in Decorators : d.name = n

NoLast == [kind |-> "none", exc |-> NoExc, flagIn |-> FALSE, title |-> NoExc,
           probed |-> FALSE, outerAtSave |-> FALSE, saved |-> FALSE, slept |-> 0]


(***************************************************************************)
(* saa.py: dates, lessons and the idle state of the script                 *)
(***************************************************************************)
MaxDate == 3
Dates == 1..MaxDate

\* a lesson event: custom.id (attendance_time_id) and subject.id (class
\* group id); 0 stands for a missing or non-integer id
Lesson(c, g) == [custom |-> c, subject |-> g]

NoSchedule == [d \in Dates |-> {}]

DayIdle ==
    /\ pdpc = "idle"
    /\ pdDate = 0
    /\ scheduled_lessons = {}
    /\ initial_checked_ids = {}
    /\ lessons_to_submit_raw = {}
    /\ groups_left = {}
    /\ attempted_attendance_time_ids = {}
    /\ submission_results = {}
    /\ pollSets = <<>>
    /\ final_checked_ids = {}
    /\ pdStatus = "none"
    /\ putIds = {}
    /\ checkedAtEntry = {}
    /\ prevAtEntry = "none"

RangeIdle ==
    /\ choice = "none"
    /\ start_date = 0
    /\ end_date = 0
    /\ current_date = 0
    /\ last_processed = 0
    /\ stateFile = 0
    /\ processed = <<>>
    /\ results = {}
    /\ sExit = -1
    /\ runs = 0

Sections == {"hk", "gkgz"}

\* STATE_DEFAULT, lines 64-67 (also what load_state yields without a file)
STATE_DEFAULT == [k \in Sections |-> <<>>]

WatchOff ==
    /\ wpc = "off"
    /\ site = [k \in Sections |-> <<>>]
    /\ wFile = STATE_DEFAULT
    /\ wState = STATE_DEFAULT
    /\ new_urls = <<>>
    /\ posted = <<>>
    /\ wExit = -1
    /\ wRuns = 0
    /\ pubDate = <<>>
    /\ runPosted = <<>>

CourseOff ==
    /\ cpc = "off"
    /\ cards = <<>>
    /\ initial_buttons = <<>>
    /\ loop_i = 0
    /\ processed_successfully_count = 0
    /\ clicked = {}
    /\ loopEnd = "none"

MaxProcs == 3
Procs == 1..MaxProcs

MaxProbes == 2
Probes == 1..MaxProbes
Unlocked == 0
MainThread == MaxProbes + 1

NoAdd == [called |-> FALSE, ip |-> 0, before |-> <<>>, fileBefore |-> <<>>]

LockOff ==
    /\ proc = [p \in Procs |-> "idle"]
    /\ lockHolder = {}
    /\ refused = {}

TrackerOff ==
    /\ tpc = "off"
    /\ max_entries = 0
    /\ history = <<>>
    /\ histFile = <<>>
    /\ lastAdd = NoAdd
    /\ tracking = FALSE
    /\ last_public_v4 = 0
    /\ successes = 0
    /\ track_ip_history = FALSE
    /\ imported_history = "none"

QualityOff ==
    /\ enable_ping_monitor = FALSE
    /\ imported_ping = "none"
    /\ quality_monitor = FALSE
    /\ latencies = 0
    /\ quality_last_stats = 0
    /\ quality_dirty = FALSE
    /\ quality_lock = Unlocked
    /\ item_quality = 0
    /\ probePc = [t \in Probes |-> "off"]
    /\ probeStats = [t \in Probes |-> 0]
    /\ tick = "off"
    /\ tickStats = 0
    /\ titleWriters = {}

MenuOff == LockOff /\ TrackerOff /\ QualityOff

MaxThreads == 2
Threads == 1..MaxThreads

RateOff ==
    /\ now = 0
    /\ last_check = 0
    /\ updPc = [t \in Threads |-> "off"]
    /\ pings = {}

AsnOff ==
    /\ tsv = <<>>
    /\ v4 = <<>>
    /\ v4_keys = <<>>
    /\ v6 = <<>>
    /\ v6_keys = <<>>
    /\ loaded = FALSE
    /\ loads = 0

SapOff ==
    /\ sapPc = [t \in Threads |-> "off"]
    /\ sap_lock = Unlocked
    /\ sapLog = [t \in Threads |-> "none"]

RefreshOff ==
    /\ rfpc = "off"
    /\ responses = <<>>
    /\ reauths = 0
    /\ auth_attempts = 0
    /\ login_ok = FALSE
    /\ returned = 0
    /\ rfCalls = 0

PartsOff == RateOff /\ AsnOff /\ SapOff /\ RefreshOff

SaaOff ==
    /\ schedule = NoSchedule
    /\ srvChecked = {}
    /\ srvPending = {}
    /\ DayIdle
    /\ spc = "off"
    /\ RangeIdle

(***************************************************************************)
(* retry_on_exception.wrapper, lines 111-189                               *)
(***************************************************************************)
\* `while attempts <= retries`, line 123
LoopGuard(att, retries) == att <= retries

Exhausted_OffByOne(att, retries) == att > retries + 1

\* `if attempts > retries`, line 168
Exhausted(att, retries) == att > retries

RetryWait_Constant(delay, att) == delay

\* `time.sleep(delay * attempts)`, line 183
RetryWait(delay, att) == delay * att

ShouldSave_IgnoreFlag(drv, flag) == drv

\* `if driver_instance and not current_session_flag_for_save`, lines 173, 181
ShouldSave(drv, flag) == drv /\ ~flag

\* `if is_invalid_session or session_invalid_flag`, line 161
StopOnSession(invalid, flag) == invalid \/ flag

\* wrapper entry, lines 112-121.  hasOuter: kwargs carry '__outer_kwargs__'
\* (a dict distinct from the wrapper's own kwargs); otherwise
\* outer_kwargs_ref is kwargs_received_by_wrapper itself (one flag).
WrapperEnter(d, hasOuter, of, rf) ==
    /\ cfg' = [name |-> d.name, retries |-> d.retries, delay |-> d.delay,
               exceptions |-> d.exceptions, hasDriver |-> d.hasDriver,
               hasOuter |-> hasOuter]
    /\ rpc' = "loop"
    /\ attempts' = 0
    /\ calls' = 0
    /\ session_invalid_flag' = IF hasOuter THEN of ELSE rf
    /\ outerFlag' = IF hasOuter THEN of ELSE rf
    /\ recvFlag' = rf
    /\ sleeps' = <<>>
    /\ saves' = <<>>
    /\ last' = NoLast
    /\ allListed' = TRUE
    /\ raisedExc' = NoExc

\* the `finally` clause, lines 184-188: the flag dict gets the local flag
FinallyWrite(flag, recvNow) ==
    /\ outerFlag' = flag
    /\ recvFlag' = IF cfg.hasOuter THEN recvNow ELSE flag

\* one iteration of the while loop: func is invoked once; e is what it raised
\* (NoExc: it returned), w says whether func wrote True into
\* kwargs['__outer_kwargs__']['__session_invalid_flag__'] (as
\* click_login_button_with_retry does), t is what driver.title raises.
Attempt ==
    /\ rpc = "loop"
    /\ LoopGuard(attempts, cfg.retries)
    /\ \E e \in {NoExc} \cup Excs,
          w \in (IF cfg.hasOuter THEN BOOLEAN ELSE {FALSE}),
          t \in (IF cfg.hasDriver /\ ~session_invalid_flag THEN TitleOutcomes ELSE {NoExc}) :
       LET outerNow == outerFlag \/ w
           att      == attempts + 1
           probe    == cfg.hasDriver /\ ~IsInvalidSession(e) /\ ~session_invalid_flag
           detected == probe /\ TitleCheckInvalid(t)
           invalid  == IsInvalidSession(e) \/ detected
           flag2    == session_invalid_flag \/ detected
           cur      == outerNow
           doSave   == ShouldSave(cfg.hasDriver, cur)
           rec(k, sv, sl) ==
               [kind |-> k, exc |-> e, flagIn |-> session_invalid_flag,
                title |-> IF probe THEN t ELSE NoExc, probed |-> probe,
                outerAtSave |-> cur, saved |-> sv, slept |-> sl]
       IN
       /\ calls' = calls + 1
       /\ UNCHANGED <<cfg, mainVars, notAttendanceVars>>
       /\ IF e = NoExc THEN
             \* lines 128-131, then finally
             /\ rpc' = "returned"
             /\ last' = rec("return", FALSE, 0)
             /\ allListed' = FALSE
             /\ FinallyWrite(session_invalid_flag, recvFlag)
             /\ UNCHANGED <<attempts, session_invalid_flag, sleeps, saves, raisedExc>>
          ELSE IF ~Caught(e, cfg.exceptions) THEN
             \* not matched by `except exceptions`: propagates through finally
             /\ rpc' = "raised"
             /\ raisedExc' = e
             /\ last' = rec("uncaught", FALSE, 0)
             /\ allListed' = FALSE
             /\ FinallyWrite(session_invalid_flag, recvFlag)
             /\ UNCHANGED <<attempts, session_invalid_flag, sleeps, saves>>
          ELSE
             /\ attempts' = att
             /\ session_invalid_flag' = flag2
             /\ UNCHANGED allListed
             /\ IF StopOnSession(invalid, flag2) THEN
                   \* lines 161-166, then finally
                   /\ rpc' = "raised"
                   /\ raisedExc' = e
                   /\ last' = rec("session", FALSE, 0)
                   /\ FinallyWrite(flag2, TRUE)
                   /\ UNCHANGED <<sleeps, saves>>
                ELSE IF Exhausted(att, cfg.retries) THEN
                   \* lines 168-175, then finally
                   /\ rpc' = "raised"
                   /\ raisedExc' = e
                   /\ last' = rec("final", doSave, 0)
                   /\ saves' = IF doSave THEN Append(saves, att) ELSE saves
                   /\ FinallyWrite(flag2, recvFlag)
                   /\ UNCHANGED sleeps
                ELSE
                   \* lines 176-183, then finally; when the loop condition
                   \* fails afterwards the wrapper returns None (line 189)
                   /\ rpc' = IF LoopGuard(att, cfg.retries) THEN "loop" ELSE "returned"
                   /\ last' = rec("retry", doSave, RetryWait(cfg.delay, att))
                   /\ saves' = IF doSave THEN Append(saves, att) ELSE saves
                   /\ sleeps' = Append(sleeps, RetryWait(cfg.delay, att))
                   /\ FinallyWrite(flag2, recvFlag)
                   /\ UNCHANGED raisedExc

\* a caller invokes a decorated function: any decorator of the script, with
\* any retries in 0..MaxRetries, any incoming flags
RetryCall ==
    /\ rpc \in {"idle", "returned", "raised"}
    /\ \E d \in Decorators, n \in 0..MaxRetries, ho \in BOOLEAN,
          of \in BOOLEAN, rf \in BOOLEAN :
          WrapperEnter([d EXCEPT !.retries = n], ho, of, rf)
    /\ UNCHANGED <<mainVars, notAttendanceVars>>

RetryInit ==
    /\ rpc = "idle"
    /\ cfg = [name |-> "none", retries |-> 0, delay |-> 0, exceptions |-> {},
              hasDriver |-> FALSE, hasOuter |-> FALSE]
    /\ attempts = 0
    /\ calls = 0
    /\ session_invalid_flag = FALSE
    /\ outerFlag = FALSE
    /\ recvFlag = FALSE
    /\ sleeps = <<>>
    /\ saves = <<>>
    /\ last = NoLast
    /\ allListed = TRUE
    /\ raisedExc = NoExc

MainOff ==
    /\ mpc = "off"
    /\ driver = FALSE
    /\ final_success = FALSE
    /\ process_status_str = "initial_failure"
    /\ verify_status_bool = FALSE
    /\ main_flag = FALSE
    /\ exit_status = -1
    /\ procReturned = "none"
    /\ verifyReturned = "none"
    /\ verifyCalls = 0
    /\ stepRaised = "none"
    /\ procExc = NoExc

InitRetry == RetryInit /\ MainOff /\ SaaOff /\ WatchOff /\ CourseOff /\ MenuOff /\ PartsOff

NextRetry == RetryCall \/ Attempt

SpecRetry == InitRetry /\ [][NextRetry]_vars


(***************************************************************************)
(* Claims about retry_on_exception                                         *)
(***************************************************************************)
\* the exception identifies an invalid browser session, as the claim words it
SessionIdentifying(e) ==
    \/ e.type = "InvalidSessionIdException"
    \/ /\ e.type \in {"WebDriverException", "TimeoutException",
                      "StaleElementReferenceException",
                      "ElementClickInterceptedException"}
       /\ e.msg \in {"invalid session id", "session deleted", "chrome not reachable",
                     "no such execution context", "target window already closed"}

\* C1: one call of the wrapper invokes func at most retries+1 times; when
\* every invocation raised a listed exception and no session invalidation
\* was detected, the wrapper ends by re-raising the last exception after
\* exactly retries+1 invocations and never by returning.
C1_BoundedRetry ==
    /\ calls <= cfg.retries + 1
    /\ (rpc \in {"returned", "raised"} /\ calls > 0 /\ allListed /\ last.kind # "session")
          => /\ rpc = "raised"
             /\ calls = cfg.retries + 1
             /\ raisedExc = last.exc

C1_Witness ==
    /\ rpc = "raised" /\ allListed /\ last.kind = "final"
    /\ cfg.retries = 2 /\ calls = 3

\* C2: when an invocation raises a session-identifying exception, or raises
\* while the wrapper's session-invalid flag is already set, the wrapper
\* re-raises that exception at once: it is finished (func is not invoked
\* again) and no retry delay was slept for that attempt.
C2_SessionStopsRetry ==
    (last.kind \in {"uncaught", "session", "final", "retry"}
       /\ (SessionIdentifying(last.exc) \/ last.flagIn))
    => /\ rpc = "raised"
       /\ raisedExc = last.exc
       /\ last.slept = 0
       /\ Len(sleeps) = calls - 1

C2_Witness ==
    /\ rpc = "raised" /\ last.kind = "session"
    /\ last.exc = [type |-> "WebDriverException", msg |-> "chrome not reachable"]
    /\ cfg.retries = 2 /\ calls = 1

SavesFor(a) == Cardinality({i \in DOMAIN saves : saves[i] = a})

C10_ArtifactsOncePerFailure ==
    /\ (last.kind \in {"retry", "final"} /\ cfg.hasDriver
          /\ ~last.flagIn /\ ~last.outerAtSave)
       => (last.saved /\ SavesFor(attempts) = 1)
    /\ last.kind = "session" => (~last.saved /\ SavesFor(attempts) = 0)
    /\ last.saved => (cfg.hasDriver /\ ~last.outerAtSave /\ ~session_invalid_flag)
    /\ \A a \in 1..(MaxRetries + 2) : SavesFor(a) <= 1

C10_Witness ==
    /\ rpc = "raised" /\ last.kind = "final" /\ cfg.hasDriver
    /\ saves = <<1, 2, 3>>


(***************************************************************************)
(* attendance_script_robust.py: main, lines 1000-1140                      *)
(* get_webdriver, login and skip_phone_binding run under the wrapper, with *)
(* kwargs = **shared_kwargs: outer_kwargs_ref is shared_kwargs (outerFlag) *)
(* and the wrapper's own kwargs are a copy.  process_attendance and        *)
(* verify_attendance are not decorated; they write the flag only into      *)
(* their own copy of the kwargs, so shared_kwargs is untouched by them.    *)
(***************************************************************************)
\* the values process_attendance returns, lines 652-871
ProcessStatuses ==
    {"already_done", "failure_exception_has_card", "calendar_empty_but_verify_needed",
     "calendar_has_cards_no_buttons_verify_needed", "no_action_needed_before_loop",
     "all_processed_successfully", "partially_processed", "none_processed_failure",
     "unknown_state_no_initial_buttons"}

FinalSuccess_IgnoreVerify(flag, status, verify) ==
    ~flag /\ status \in {"all_processed_successfully", "already_done", "partially_processed"}

\* final success determination, lines 1071-1094
FinalSuccess(flag, status, verify) ==
    IF flag THEN FALSE
    ELSE IF status \in {"all_processed_successfully", "already_done"} THEN verify
    ELSE IF status = "partially_processed" THEN verify
    ELSE FALSE

\* `finally` of main, lines 1106-1140: `if not final_success: sys.exit(1)`,
\* otherwise main returns and the interpreter exits with status 0
ExitStatus(success) == IF success THEN 0 ELSE 1

\* the handlers of main's outer try, lines 1096-1104, then the finally
MainAbort(e, step) ==
    /\ main_flag' = IF IsInstance(e.type, "RequestException") THEN main_flag
                    ELSE IF IsInstance(e.type, "InvalidSessionIdException") THEN TRUE
                    ELSE outerFlag
    /\ final_success' = FALSE
    /\ exit_status' = ExitStatus(FALSE)
    /\ stepRaised' = step
    /\ mpc' = "exited"

\* lines 1006-1016: main starts and calls get_webdriver(**shared_kwargs)
MainStart ==
    /\ mpc = "start"
    /\ mpc' = "get_webdriver"
    /\ WrapperEnter(Decorator("get_webdriver"), TRUE, FALSE, FALSE)
    /\ UNCHANGED <<driver, final_success, process_status_str, verify_status_bool,
                   main_flag, exit_status, procReturned, verifyReturned, verifyCalls,
                   stepRaised, procExc, notAttendanceVars>>

\* control is back in main after a decorated step: either the exception is
\* handled (abort), or the flag is read from shared_kwargs and, unless it is
\* set, the next step is called
AfterWrapped(step, next) ==
    /\ mpc = step
    /\ rpc \in {"returned", "raised"}
    /\ UNCHANGED <<process_status_str, verify_status_bool, procReturned,
                   verifyReturned, verifyCalls, procExc, notAttendanceVars>>
    /\ IF rpc = "raised" THEN
          /\ MainAbort(raisedExc, step)
          /\ UNCHANGED <<retryVars, driver>>
       ELSE
          /\ driver' = TRUE
          /\ IF outerFlag THEN
                /\ MainAbort([type |-> "InvalidSessionIdException", msg |-> step], "none")
                /\ UNCHANGED retryVars
             ELSE
                /\ main_flag' = outerFlag
                /\ mpc' = next
                /\ UNCHANGED <<final_success, exit_status, stepRaised>>
                /\ IF next \in {"login", "skip_phone_binding"}
                   THEN WrapperEnter(Decorator(next), TRUE, outerFlag, outerFlag)
                   ELSE UNCHANGED retryVars

\* lines 1016-1020
AfterGetWebdriver == AfterWrapped("get_webdriver", "login")

\* lines 1020-1027 (login returns True or raises, so login_ok holds)
AfterLogin == AfterWrapped("login", "skip_phone_binding")

\* lines 1027-1031
AfterSkipPhoneBinding == AfterWrapped("skip_phone_binding", "process_attendance")

\* lines 1033-1053: the call of process_attendance and its handlers
ProcessAttendance ==
    /\ mpc = "process_attendance"
    /\ \/ \E o \in ProcessStatuses :
             /\ procReturned' = o
             /\ procExc' = NoExc
             /\ IF outerFlag
                THEN main_flag' = TRUE /\ process_status_str' = "failure_session_invalid"
                ELSE main_flag' = outerFlag /\ process_status_str' = o
       \/ \E e \in Excs :
             /\ procReturned' = "none"
             /\ procExc' = e
             /\ IF IsInstance(e.type, "InvalidSessionIdException")
                THEN main_flag' = TRUE /\ process_status_str' = "failure_session_invalid"
                ELSE main_flag' = outerFlag /\ process_status_str' = "failure_exception"
    /\ mpc' = "verify_attendance"
    /\ UNCHANGED <<retryVars, driver, final_success, verify_status_bool, exit_status,
                   verifyReturned, verifyCalls, stepRaised, notAttendanceVars>>

\* lines 1055-1094 and the finally: verification (skipped when the flag is
\* set), final success determination, exit.  v: what verify_attendance
\* returned, or "raise" when it raised.
VerifyAttendance ==
    /\ mpc = "verify_attendance"
    /\ \E v \in {"True", "False", "raise"} :
          LET called == driver /\ ~main_flag
              flag == IF called THEN outerFlag ELSE main_flag
              ok   == called /\ v = "True" /\ ~outerFlag
          IN
          /\ called \/ v = "False"
          /\ verifyCalls' = IF called THEN verifyCalls + 1 ELSE verifyCalls
          /\ verifyReturned' = IF called /\ v \in {"True", "False"} THEN v ELSE "none"
          /\ verify_status_bool' = ok
          /\ main_flag' = flag
          /\ final_success' = FinalSuccess(flag, process_status_str, ok)
          /\ exit_status' = ExitStatus(FinalSuccess(flag, process_status_str, ok))
    /\ mpc' = "exited"
    /\ UNCHANGED <<retryVars, driver, process_status_str, procReturned, stepRaised,
                   procExc, notAttendanceVars>>

InitMain ==
    /\ RetryInit
    /\ SaaOff
    /\ WatchOff
    /\ CourseOff
    /\ MenuOff
    /\ PartsOff
    /\ mpc = "start"
    /\ driver = FALSE
    /\ final_success = FALSE
    /\ process_status_str = "initial_failure"
    /\ verify_status_bool = FALSE
    /\ main_flag = FALSE
    /\ exit_status = -1
    /\ procReturned = "none"
    /\ verifyReturned = "none"
    /\ verifyCalls = 0
    /\ stepRaised = "none"
    /\ procExc = NoExc

NextMain ==
    \/ MainStart
    \/ Attempt
    \/ AfterGetWebdriver
    \/ AfterLogin
    \/ AfterSkipPhoneBinding
    \/ ProcessAttendance
    \/ VerifyAttendance

SpecMain == InitMain /\ [][NextMain]_vars

\* C7: main exits non-zero whenever the run did not succeed (a step raised
\* into main, e.g. after its retries were exhausted, or the session was
\* found invalid); it exits 0 only when process_attendance returned
\* all_processed_successfully, already_done or partially_processed and
\* verify_attendance returned True.
C7_ExitStatus ==
    mpc = "exited" =>
       /\ exit_status \in {0, 1}
       /\ exit_status = 0 =>
             /\ procReturned \in {"all_processed_successfully", "already_done",
                                  "partially_processed"}
             /\ verifyReturned = "True"
       /\ (stepRaised # "none" \/ main_flag \/ last.kind = "session") => exit_status # 0
       /\ (procReturned = "none" \/ verifyReturned # "True") => exit_status # 0

C7_Witness ==
    /\ mpc = "exited" /\ exit_status = 1
    /\ stepRaised = "login" /\ last.kind = "final" /\ calls = 3

\* the exceptions with which process_attendance ends when it detects an
\* invalid session: lines 584-588, 616-619, 643-646, 693-697
ProcessDetectsSession(e) ==
    \/ IsInstance(e.type, "InvalidSessionIdException")
    \/ /\ IsInstance(e.type, "WebDriverException")
       /\ e.msg \in {"invalid session id", "session deleted", "chrome not reachable"}

\* C16: when a step called by main ended because an invalid session was
\* detected (the wrapper's branch of line 161 for the decorated steps, an
\* exception of process_attendance that marks the session invalid), the flag
\* in shared_kwargs is True once control is back in main; and the flag, once
\* True, never becomes False again.
C16_FlagSetAndKept ==
    /\ [](/\ (mpc \in {"get_webdriver", "login", "skip_phone_binding"}
                /\ rpc = "raised" /\ last.kind = "session") => outerFlag
          /\ (mpc = "verify_attendance" /\ ProcessDetectsSession(procExc)) => outerFlag)
    /\ [][outerFlag => outerFlag']_vars

\* C17: after process_attendance ended on a detected invalid session,
\* whether with an InvalidSessionIdException or with a WebDriverException
\* carrying a session-invalid message, verify_attendance is not called and
\* the run ends as failed.
C17_NoVerifyAfterInvalidSession ==
    (mpc = "exited" /\ ProcessDetectsSession(procExc))
       => (verifyCalls = 0 /\ exit_status = 1)


(***************************************************************************)
(* saa.py: process_day, lines 341-433, and the API calls it makes          *)
(***************************************************************************)
MaxLessons == 2

\* `for poll in range(1, 3 + 1)`, line 395
MaxPolls == 3

\* lessons a day's calendar can hold: two lessons of class 1, one of
\* class 2, one without subject id, one without attendance_time_id
Pool(d) == {Lesson(10 * d + 1, 1), Lesson(10 * d + 2, 1), Lesson(10 * d + 3, 2),
            Lesson(10 * d + 4, 0), Lesson(0, 2)}

Schedules(d) == {ls \in SUBSET Pool(d) : Cardinality(ls) <= MaxLessons}

\* lessons with both ids valid, lines 197-205
Relevant(lessons) == {l \in lessons : l.custom # 0 /\ l.subject # 0}

RelevantTimeIds(lessons) == {l.custom : l \in Relevant(lessons)}

\* get_checked_attendance_time_ids, lines 193-231: no request without valid
\* ids; set() when the request fails; otherwise the checked ids among those
\* asked for
GetChecked(lessons, ok, srv) ==
    IF Relevant(lessons) = {} THEN {}
    ELSE IF ~ok THEN {}
    ELSE srv \cap RelevantTimeIds(lessons)

\* lessons_to_submit_raw, lines 350-360
LessonsToSubmit(lessons, checked) ==
    {l \in lessons : l.custom # 0 /\ l.custom \notin checked}

\* keys of groups_to_submit, lines 367-376
Groups(raw) == {l.subject : l \in {x \in raw : x.subject # 0}}

GroupLessons(raw, g) == {l \in raw : l.subject = g}

GroupTimeIds(raw, g) == {l.custom : l \in GroupLessons(raw, g)}

AllChecked_Any(attempted, current) == attempted \cap current # {}

\* `all(tid in current_checked_ids for tid in attempted_attendance_time_ids)`, line 400
AllChecked(attempted, current) == attempted \subseteq current

\* still_pending_after_submission, lines 406-415
StillPending(raw, attempted, final) ==
    {l \in raw : l.custom # 0 /\ l.custom \in attempted /\ l.custom \notin final}

\* lines 417-433
DayStatus(pending, subres) ==
    IF pending = {} THEN
       IF \E r \in subres : r[2] = "WINDOW_CLOSED"
       THEN "SUCCESS_WITH_WARNINGS" ELSE "SUCCESS"
    ELSE "VERIFY_FAILED"

\* outcomes of submit_attendance_for_lesson_group, lines 234-310
SubmitOutcomes == {"students_error", "no_students", "no_records",
                   "put_ok", "put_window_closed", "put_error"}

\* whether the PUT request is sent, line 297
PutSent(o) == o \in {"put_ok", "put_window_closed", "put_error"}

\* return value of submit_attendance_for_lesson_group
SubmitResult(o) ==
    IF o \in {"no_students", "put_ok"} THEN "True"
    ELSE IF o = "put_window_closed" THEN "WINDOW_CLOSED"
    ELSE "False"

\* process_day is called for date d
ProcessDayEnter(d) ==
    /\ pdpc' = "fetch"
    /\ pdDate' = d
    /\ scheduled_lessons' = {}
    /\ initial_checked_ids' = {}
    /\ lessons_to_submit_raw' = {}
    /\ groups_left' = {}
    /\ attempted_attendance_time_ids' = {}
    /\ submission_results' = {}
    /\ pollSets' = <<>>
    /\ final_checked_ids' = {}
    /\ pdStatus' = "none"
    /\ putIds' = {}
    /\ checkedAtEntry' = srvChecked
    /\ prevAtEntry' = IF pdpc = "done" /\ pdDate = d THEN pdStatus ELSE "none"

\* process_day returns st
ProcessDayReturn(st) ==
    /\ pdpc' = "done"
    /\ pdStatus' = st

\* lines 343-347: get_scheduled_lessons (None on a request error)
PD_Fetch ==
    /\ pdpc = "fetch"
    /\ \E ok \in BOOLEAN :
          IF ~ok THEN
             /\ ProcessDayReturn("API_FETCH_ERROR")
             /\ UNCHANGED scheduled_lessons
          ELSE
             /\ scheduled_lessons' = schedule[pdDate]
             /\ IF schedule[pdDate] = {}
                THEN ProcessDayReturn("NO_CLASS")
                ELSE pdpc' = "check" /\ UNCHANGED pdStatus
    /\ UNCHANGED <<serverVars, pdDate, initial_checked_ids, lessons_to_submit_raw,
                   groups_left, attempted_attendance_time_ids, submission_results,
                   pollSets, final_checked_ids, putIds, checkedAtEntry, prevAtEntry>>
    /\ UNCHANGED <<notSaaVars, rangeVars>>

\* lines 349-379: initial check, filter and grouping.  Before it answers,
\* the server may have come to report some pending ids as checked.
PD_InitialCheck ==
    /\ pdpc = "check"
    /\ \E ok \in BOOLEAN, settle \in SUBSET srvPending :
          LET srv == srvChecked \cup settle
              checked == GetChecked(scheduled_lessons, ok, srv)
              raw == LessonsToSubmit(scheduled_lessons, checked)
          IN
          /\ srvChecked' = srv
          /\ srvPending' = srvPending \ settle
          /\ initial_checked_ids' = checked
          /\ lessons_to_submit_raw' = raw
          /\ groups_left' = Groups(raw)
          /\ IF raw = {} THEN ProcessDayReturn("NO_ACTION_NEEDED")
             ELSE IF Groups(raw) = {} THEN ProcessDayReturn("NOTHING_TO_SUBMIT")
             ELSE pdpc' = "submit" /\ UNCHANGED pdStatus
    /\ UNCHANGED <<schedule, pdDate, scheduled_lessons, attempted_attendance_time_ids,
                   submission_results, pollSets, final_checked_ids, putIds,
                   checkedAtEntry, prevAtEntry>>
    /\ UNCHANGED <<notSaaVars, rangeVars>>

\* lines 383-391: one iteration of the submission loop (one course group).
\* An accepted PUT, and a PUT refused because the window is closed (the
\* attendance may have been recorded by someone else), leave the ids among
\* those the server may report as checked later.
PD_Submit ==
    /\ pdpc = "submit"
    /\ \E g \in groups_left, o \in SubmitOutcomes :
          LET ids == GroupTimeIds(lessons_to_submit_raw, g) IN
          /\ attempted_attendance_time_ids' = attempted_attendance_time_ids \cup ids
          /\ submission_results' = submission_results \cup {<<g, SubmitResult(o)>>}
          /\ putIds' = IF PutSent(o) THEN putIds \cup ids ELSE putIds
          /\ srvPending' = IF o \in {"put_ok", "put_window_closed"}
                           THEN srvPending \cup (ids \ srvChecked) ELSE srvPending
          /\ groups_left' = groups_left \ {g}
          /\ pdpc' = IF groups_left = {g} THEN "poll" ELSE "submit"
    /\ UNCHANGED <<schedule, srvChecked, pdDate, scheduled_lessons, initial_checked_ids,
                   lessons_to_submit_raw, pollSets, final_checked_ids, pdStatus,
                   checkedAtEntry, prevAtEntry>>
    /\ UNCHANGED <<notSaaVars, rangeVars>>

\* lines 395-433: one verification poll; the poll that ends the loop also
\* computes the result
PD_Poll ==
    /\ pdpc = "poll"
    /\ Len(pollSets) < MaxPolls
    /\ \E ok \in BOOLEAN, settle \in SUBSET srvPending :
          LET srv == srvChecked \cup settle
              current == GetChecked(scheduled_lessons, ok, srv)
              passed == AllChecked(attempted_attendance_time_ids, current)
              final == IF passed THEN current ELSE final_checked_ids
              pending == StillPending(lessons_to_submit_raw,
                                      attempted_attendance_time_ids, final)
          IN
          /\ srvChecked' = srv
          /\ srvPending' = srvPending \ settle
          /\ pollSets' = Append(pollSets, current)
          /\ final_checked_ids' = final
          /\ IF passed \/ Len(pollSets) + 1 = MaxPolls
             THEN ProcessDayReturn(DayStatus(pending, submission_results))
             ELSE UNCHANGED <<pdpc, pdStatus>>
    /\ UNCHANGED <<schedule, pdDate, scheduled_lessons, initial_checked_ids,
                   lessons_to_submit_raw, groups_left, attempted_attendance_time_ids,
                   submission_results, putIds, checkedAtEntry, prevAtEntry>>
    /\ UNCHANGED <<notSaaVars, rangeVars>>

\* process_day is run for the same day again and again (today mode of main,
\* one run after the other)
DayCall ==
    /\ pdpc \in {"idle", "done"}
    /\ spc = "off"
    /\ ProcessDayEnter(1)
    /\ UNCHANGED <<serverVars, notSaaVars, rangeVars>>

InitDay ==
    /\ RetryInit
    /\ MainOff
    /\ WatchOff
    /\ CourseOff
    /\ MenuOff
    /\ PartsOff
    /\ DayIdle
    /\ spc = "off"
    /\ RangeIdle
    /\ \E ls \in Schedules(1) : schedule = [NoSchedule EXCEPT ![1] = ls]
    /\ srvChecked \in SUBSET RelevantTimeIds(schedule[1])
    /\ srvPending = {}

NextDay == DayCall \/ PD_Fetch \/ PD_InitialCheck \/ PD_Submit \/ PD_Poll

SpecDay == InitDay /\ [][NextDay]_vars

\* C3: process_day never submits a lesson the server already holds as
\* checked, and a process_day that follows one of the same day that
\* returned SUCCESS sends no PUT and returns NO_ACTION_NEEDED.
C3_IdempotentSubmit ==
    /\ putIds \cap checkedAtEntry = {}
    /\ (pdpc = "done" /\ prevAtEntry = "SUCCESS")
          => (putIds = {} /\ pdStatus = "NO_ACTION_NEEDED")

\* C4: process_day returns SUCCESS or SUCCESS_WITH_WARNINGS only if one of
\* at most three polls reported every attempted id as checked, that poll
\* being the last one made; when three polls were made and none did, the
\* result is VERIFY_FAILED.
PollPassed(k) == attempted_attendance_time_ids \subseteq pollSets[k]

C4_VerifiedByPoll ==
    /\ Len(pollSets) <= 3
    /\ pdpc = "done" =>
          /\ pdStatus \in {"SUCCESS", "SUCCESS_WITH_WARNINGS"}
                => /\ Len(pollSets) >= 1
                   /\ PollPassed(Len(pollSets))
                   /\ \A k \in 1..(Len(pollSets) - 1) : ~PollPassed(k)
          /\ (Len(pollSets) = 3 /\ \A k \in 1..3 : ~PollPassed(k))
                => pdStatus = "VERIFY_FAILED"
          /\ pdStatus = "VERIFY_FAILED"
                => (Len(pollSets) = 3 /\ \A k \in 1..3 : ~PollPassed(k))
    /\ (pdpc = "poll" /\ Len(pollSets) >= 1) => \A k \in 1..Len(pollSets) : ~PollPassed(k)

C4_Witness ==
    /\ pdpc = "done" /\ pdStatus = "SUCCESS" /\ Len(pollSets) = 2
    /\ Cardinality(attempted_attendance_time_ids) = 2


(***************************************************************************)
(* saa.py: run_date_range_task (lines 436-488) and main (lines 490-549).   *)
(* File operations on STATE_FILE are taken to succeed.                     *)
(***************************************************************************)
MaxRuns == 2

\* TERMINAL, line 456
TERMINAL == {"SUCCESS", "SUCCESS_WITH_WARNINGS", "NO_ACTION_NEEDED", "NO_CLASS",
             "NOTHING_TO_SUBMIT"}

\* the statuses main maps to exit code 0 in modes 1 and 2, lines 517, 529
ExitOkStatuses == {"SUCCESS", "NO_CLASS", "NO_ACTION_NEEDED", "NOTHING_TO_SUBMIT"}

\* lines 511-518 and 526-530
DayExitCode(st) == IF st \in ExitOkStatuses THEN 0 ELSE 1

FirstDate_RepeatLast(s0, e0, lp) ==
    IF lp # 0 /\ s0 <= lp /\ lp < e0 THEN lp ELSE s0

\* lines 441-445: the date the loop starts with
FirstDate(s0, e0, lp) ==
    IF lp # 0 /\ s0 <= lp /\ lp < e0 THEN lp + 1 ELSE s0

\* lines 446-453: the task returns at once (after _clear_state)
NothingToDo(s0, e0, lp) ==
    /\ ~(lp # 0 /\ s0 <= lp /\ lp < e0)
    /\ \/ lp # 0 /\ lp >= e0
       \/ s0 > e0

\* the process ends: its variables are gone
DayReset ==
    /\ pdpc' = "idle"
    /\ pdDate' = 0
    /\ scheduled_lessons' = {}
    /\ initial_checked_ids' = {}
    /\ lessons_to_submit_raw' = {}
    /\ groups_left' = {}
    /\ attempted_attendance_time_ids' = {}
    /\ submission_results' = {}
    /\ pollSets' = <<>>
    /\ final_checked_ids' = {}
    /\ pdStatus' = "none"
    /\ putIds' = {}
    /\ checkedAtEntry' = {}
    /\ prevAtEntry' = "none"

\* a run of the script begins: state of a fresh process
RunBegins(c) ==
    /\ spc \in {"start", "exited"}
    /\ runs < MaxRuns
    /\ pdpc = "idle"
    /\ runs' = runs + 1
    /\ choice' = c
    /\ results' = {}

\* main ends before any day is processed: credentials missing (exit 1), bad
\* menu choice (2), login failure (3), bad date in mode 2 (2), bad or
\* reversed dates in mode 3 (ValueError, exit 1), lines 495-509, 521-525, 534-535
MainEarlyExit ==
    /\ \E c \in {"none", "2", "3"}, code \in {1, 2, 3} :
          /\ c = "2" => code = 2
          /\ c = "3" => code = 1
          /\ RunBegins(c)
          /\ sExit' = code
    /\ processed' = <<>>
    /\ spc' = "exited"
    /\ start_date' = 0 /\ end_date' = 0 /\ current_date' = 0 /\ last_processed' = 0
    /\ UNCHANGED <<stateFile, dayVars, serverVars, notSaaVars>>

\* modes 1 and 2, lines 512-514 and 519-526: process_day for one date
MainDay ==
    /\ \E c \in {"1", "2"}, d \in Dates :
          /\ RunBegins(c)
          /\ ProcessDayEnter(d)
          /\ processed' = <<d>>
    /\ spc' = "day"
    /\ sExit' = -1
    /\ start_date' = 0 /\ end_date' = 0 /\ current_date' = 0 /\ last_processed' = 0
    /\ UNCHANGED stateFile
    /\ UNCHANGED <<serverVars, notSaaVars>>

\* modes 1 and 2, lines 515-518, 527-530, 539-540
MainAfterDay ==
    /\ spc = "day"
    /\ pdpc = "done"
    /\ results' = results \cup {<<pdDate, pdStatus>>}
    /\ sExit' = DayExitCode(pdStatus)
    /\ spc' = "exited"
    /\ DayReset
    /\ UNCHANGED <<choice, start_date, end_date, current_date, last_processed,
                   stateFile, processed, runs>>
    /\ UNCHANGED <<serverVars, notSaaVars>>

\* mode 3, lines 531-536 and 437-461: run_date_range_task up to the first
\* call of process_day, or its early return (then main exits with 0)
RangeStart ==
    /\ \E s0 \in Dates, e0 \in Dates :
          LET lp == stateFile IN
          /\ s0 <= e0
          /\ RunBegins("3")
          /\ start_date' = s0
          /\ end_date' = e0
          /\ last_processed' = lp
          /\ IF NothingToDo(s0, e0, lp) THEN
                /\ current_date' = s0
                /\ stateFile' = 0
                /\ sExit' = 0
                /\ spc' = "exited"
                /\ processed' = <<>>
                /\ UNCHANGED dayVars
             ELSE
                /\ current_date' = FirstDate(s0, e0, lp)
                /\ ProcessDayEnter(FirstDate(s0, e0, lp))
                /\ processed' = <<FirstDate(s0, e0, lp)>>
                /\ sExit' = -1
                /\ spc' = "range"
                /\ UNCHANGED stateFile
    /\ UNCHANGED <<serverVars, notSaaVars>>

\* lines 461-470 and, when the loop ends, 474-488 and 537-540
RangeAfterDay ==
    /\ spc = "range"
    /\ pdpc = "done"
    /\ results' = results \cup {<<current_date, pdStatus>>}
    /\ current_date' = current_date + 1
    /\ IF current_date + 1 <= end_date THEN
          /\ stateFile' = IF pdStatus \in TERMINAL THEN current_date ELSE stateFile
          /\ ProcessDayEnter(current_date + 1)
          /\ processed' = Append(processed, current_date + 1)
          /\ UNCHANGED <<spc, sExit>>
       ELSE
          /\ stateFile' = 0
          /\ sExit' = 0
          /\ spc' = "exited"
          /\ DayReset
          /\ UNCHANGED processed
    /\ UNCHANGED <<choice, start_date, end_date, last_processed, runs>>
    /\ UNCHANGED <<serverVars, notSaaVars>>

RangeInterrupt_NoFinally ==
    /\ spc = "range"
    /\ sExit' = 130
    /\ spc' = "exited"
    /\ DayReset
    /\ UNCHANGED <<choice, start_date, end_date, current_date, last_processed,
                   stateFile, processed, results, runs>>
    /\ UNCHANGED <<serverVars, notSaaVars>>

\* KeyboardInterrupt inside the loop, lines 471-473, then the finally
RangeInterrupt ==
    /\ spc = "range"
    /\ stateFile' = 0
    /\ sExit' = 130
    /\ spc' = "exited"
    /\ DayReset
    /\ UNCHANGED <<choice, start_date, end_date, current_date, last_processed,
                   processed, results, runs>>
    /\ UNCHANGED <<serverVars, notSaaVars>>

\* the process is killed inside the loop (SIGKILL, power loss): no handler
\* and no finally runs, STATE_FILE stays as it is
RangeKilled ==
    /\ spc = "range"
    /\ sExit' = 137
    /\ spc' = "exited"
    /\ DayReset
    /\ UNCHANGED <<choice, start_date, end_date, current_date, last_processed,
                   stateFile, processed, results, runs>>
    /\ UNCHANGED <<serverVars, notSaaVars>>

\* the calendars of the dates: no lesson, or one lesson of class 1
RangeSchedules(d) == {{}, {Lesson(10 * d + 1, 1)}}

InitSaa ==
    /\ RetryInit
    /\ MainOff
    /\ WatchOff
    /\ CourseOff
    /\ MenuOff
    /\ PartsOff
    /\ DayIdle
    /\ RangeIdle
    /\ spc = "start"
    /\ schedule \in [Dates -> SUBSET {Lesson(10 * d + 1, 1) : d \in Dates}]
    /\ \A d \in Dates : schedule[d] \in RangeSchedules(d)
    /\ srvChecked = {}
    /\ srvPending = {}

NextSaa ==
    \/ MainEarlyExit
    \/ MainDay
    \/ MainAfterDay
    \/ RangeStart
    \/ RangeAfterDay
    \/ RangeInterrupt
    \/ RangeKilled
    \/ PD_Fetch
    \/ PD_InitialCheck
    \/ PD_Submit
    \/ PD_Poll

SpecSaa == InitSaa /\ [][NextSaa]_vars

\* C6: run_date_range_task processes dates of [start, end] in strictly
\* increasing order (so each at most once per run), and when the saved
\* last_processed_date L has start <= L < end, the first date processed is
\* L+1 and no date at or before L is processed.
C6_IncreasingDates ==
    choice = "3" =>
       /\ \A i \in 1..Len(processed) :
             /\ start_date <= processed[i] /\ processed[i] <= end_date
             /\ \A j \in 1..Len(processed) : i < j => processed[i] < processed[j]
       /\ (last_processed # 0 /\ start_date <= last_processed /\ last_processed < end_date)
             => /\ Len(processed) >= 1
                /\ processed[1] = last_processed + 1
                /\ \A i \in 1..Len(processed) : processed[i] > last_processed

C6_Witness ==
    /\ choice = "3" /\ spc = "exited" /\ sExit = 0
    /\ start_date = 1 /\ end_date = 3 /\ last_processed = 1
    /\ processed = <<2, 3>>

\* C8: saa.py exits non-zero whenever a day it processed ended in
\* API_FETCH_ERROR or VERIFY_FAILED, in each of the three modes.
C8_FailureExitsNonZero ==
    (spc = "exited" /\ \E r \in results : r[2] \in {"API_FETCH_ERROR", "VERIFY_FAILED"})
       => sExit # 0


(***************************************************************************)
(* bjeea_watch.py: main (lines 385-399) and handle_section (344-382).      *)
(* An href is [sec, n]: an article n >= 1 under /html/<sec>/, or (n = 0)   *)
(* the section's index.html.  Writing the state file is taken to succeed.  *)
(***************************************************************************)
MaxArticles == 2
\* links on the two index pages together
MaxPage == 3
MaxWatchRuns == 2
MaxWatchDay == 2

Hrefs == [sec : Sections, n : 0..MaxArticles]

Range(q) == {q[i] : i \in DOMAIN q}

\* extract_article_links, lines 158-190: hrefs of the section's articles
\* (index.html left out), without repetition, in page order
RECURSIVE ExtractLinks(_, _, _)
ExtractLinks(page, sec, links) ==
    IF page = <<>> THEN links
    ELSE LET href == Head(page)
             keep == href.sec = sec /\ href.n # 0 /\ href \notin Range(links)
         IN ExtractLinks(Tail(page), sec, IF keep THEN Append(links, href) ELSE links)

\* `new_urls = [u for u in links if u not in seen_urls]`, line 360
NewUrls(links, seen) == SelectSeq(links, LAMBDA u : u \notin Range(seen))

\* an exception leaves main: the run ends with a traceback (status 1) and
\* without save_state
WatchAbort ==
    /\ wpc' = "exited"
    /\ wExit' = 1
    /\ new_urls' = <<>>
    /\ UNCHANGED <<wFile, wState, posted, runPosted>>

\* handle_section up to the article loop, lines 349-370; `after` is where
\* main goes when the section has nothing new
SectionBegin(sec, st, after) ==
    \E ok \in BOOLEAN :
       IF ~ok THEN WatchAbort
       ELSE LET new == NewUrls(ExtractLinks(site[sec], sec, <<>>), st[sec]) IN
            /\ wState' = st
            /\ new_urls' = new
            /\ UNCHANGED <<wFile, posted>>
            /\ runPosted' = IF sec = "hk" THEN <<>> ELSE runPosted
            /\ IF new = <<>>
               THEN /\ wpc' = after
                    /\ wExit' = IF after = "exited" THEN 0 ELSE -1
               ELSE /\ wpc' = sec
                    /\ wExit' = -1

\* a run starts: load_state (lines 389-390), then handle_section for hk
BeginHk ==
    /\ wpc \in {"start", "exited"}
    /\ wRuns < MaxWatchRuns
    /\ wRuns' = wRuns + 1
    /\ SectionBegin("hk", wFile, "between")
    /\ UNCHANGED <<site, pubDate>>
    /\ UNCHANGED notWatchVars

\* main's loop goes on to gkgz
BeginGkgz ==
    /\ wpc = "between"
    /\ SectionBegin("gkgz", wState, "exited")
    /\ UNCHANGED <<site, wRuns, pubDate>>
    /\ UNCHANGED notWatchVars

\* one iteration of the article loop, lines 372-379; after the last article
\* save_state (line 382) and back to main
PostArticle ==
    /\ wpc \in Sections
    /\ new_urls # <<>>
    /\ \E parsed \in BOOLEAN, replied \in BOOLEAN :
          IF ~parsed \/ ~replied THEN WatchAbort
          ELSE LET st == [wState EXCEPT ![wpc] = Append(@, Head(new_urls))] IN
               /\ posted' = Append(posted, Head(new_urls))
               /\ runPosted' = Append(runPosted, Head(new_urls))
               /\ wState' = st
               /\ new_urls' = Tail(new_urls)
               /\ IF Tail(new_urls) = <<>>
                  THEN /\ wFile' = st
                       /\ wpc' = IF wpc = "hk" THEN "between" ELSE "exited"
                       /\ wExit' = IF wpc = "hk" THEN -1 ELSE 0
                  ELSE UNCHANGED <<wFile, wpc, wExit>>
    /\ UNCHANGED <<site, wRuns, pubDate>>
    /\ UNCHANGED notWatchVars

\* the latest day on which the site published an article
LatestDay == IF DOMAIN pubDate = {} THEN 1
             ELSE CHOOSE d \in 1..MaxWatchDay :
                    /\ \E h \in DOMAIN pubDate : pubDate[h] = d
                    /\ \A h \in DOMAIN pubDate : pubDate[h] <= d

\* between two runs the site puts a link at the top of an index page; an
\* article that appears for the first time is published that day
Publish ==
    /\ wpc \in {"start", "exited"}
    /\ \E sec \in Sections, href \in Hrefs, day \in LatestDay..MaxWatchDay :
          /\ Len(site["hk"]) + Len(site["gkgz"]) < MaxPage
          /\ site' = [site EXCEPT ![sec] = <<href>> \o @]
          /\ pubDate' = IF href.n = 0 \/ href \in DOMAIN pubDate THEN pubDate
                         ELSE pubDate @@ (href :> day)
    /\ UNCHANGED <<wpc, wFile, wState, new_urls, posted, wExit, wRuns, runPosted>>
    /\ UNCHANGED notWatchVars

InitWatch ==
    /\ RetryInit
    /\ MainOff
    /\ SaaOff
    /\ CourseOff
    /\ MenuOff
    /\ PartsOff
    /\ wpc = "start"
    /\ site = [k \in Sections |-> <<>>]
    /\ wFile = STATE_DEFAULT
    /\ wState = STATE_DEFAULT
    /\ new_urls = <<>>
    /\ posted = <<>>
    /\ wExit = -1
    /\ wRuns = 0
    /\ pubDate = <<>>
    /\ runPosted = <<>>

NextWatch == BeginHk \/ BeginGkgz \/ PostArticle \/ Publish

SpecWatch == InitWatch /\ [][NextWatch]_vars

\* C5: across runs sharing the state file, no article URL is posted to the
\* topic twice.
C5_NoDuplicatePosts ==
    \A i \in DOMAIN posted : \A j \in DOMAIN posted : i < j => posted[i] # posted[j]

\* C15: within a run, an article published earlier is never posted after one
\* published later.
C15_ChronologicalPosts ==
    \A i \in DOMAIN runPosted : \A j \in DOMAIN runPosted :
       i < j => pubDate[runPosted[i]] <= pubDate[runPosted[j]]

\* C18: when process_day returns SUCCESS, every scheduled lesson with an
\* attendance_time_id that the initial check did not report as checked is
\* reported as checked by the verification poll that ended the polling.
C18_NoLessonLeftOut ==
    (pdpc = "done" /\ pdStatus = "SUCCESS") =>
       \A l \in scheduled_lessons :
          (l.custom # 0 /\ l.custom \notin initial_checked_ids)
             => (pollSets # <<>> /\ l.custom \in pollSets[Len(pollSets)])

\* C20: when a run of the date range task has ended, however it ended, a
\* date of that run whose status was not in TERMINAL lies ahead of the marker
\* left in the state file (or no marker is left), so that the next run over
\* the same range, which resumes after the marker (FirstDate), processes
\* that date again.
C20_FailedDateRetried ==
    (choice = "3" /\ spc = "exited") =>
       \A r \in results :
          r[2] \notin TERMINAL => (stateFile = 0 \/ stateFile < r[1])


(***************************************************************************)
(* attendance_script_robust.py: the processing loop of process_attendance, *)
(* lines 677-871.  A course is known by its card; `cards` holds the        *)
(* courses whose record button is valid and clickable, in page order.      *)
(***************************************************************************)
MaxCourses == 3

Courses == 1..MaxCourses

\* the pages process_attendance can find: distinct courses in some order
Pages == {q \in UNION {[1..n -> Courses] : n \in 0..MaxCourses} :
             \A i \in DOMAIN q : \A j \in DOMAIN q : i # j => q[i] # q[j]}

\* what one iteration of the loop can meet
IterationOutcomes == {"timeout", "session_invalid", "find_error", "click_error",
                      "modal_error", "modal_error_after_submit", "processed"}

\* lines 677-683: the count of the buttons found before the loop
LoopStart ==
    /\ cpc = "start"
    /\ initial_buttons' = cards
    /\ IF Len(cards) = 0
       THEN cpc' = "done" /\ loopEnd' = "return"
       ELSE cpc' = "loop" /\ loopEnd' = "none"
    /\ UNCHANGED <<cards, loop_i, processed_successfully_count, clicked>>
    /\ UNCHANGED notCourseVars

\* lines 687-855: one iteration of `for i in range(buttons_to_process_count)`
LoopIteration ==
    /\ cpc = "loop"
    /\ loop_i < Len(initial_buttons)
    /\ loop_i' = loop_i + 1
    /\ \E o \in IterationOutcomes :
          IF o \in {"timeout", "session_invalid"} THEN
             \* lines 688-691 and 693-697: the function raises
             /\ cpc' = "done" /\ loopEnd' = "raise"
             /\ UNCHANGED <<cards, processed_successfully_count, clicked>>
          ELSE IF o = "find_error" \/ cards = <<>> THEN
             \* lines 710-721: break
             /\ cpc' = "done" /\ loopEnd' = "break"
             /\ UNCHANGED <<cards, processed_successfully_count, clicked>>
          ELSE
             \* line 714: current_valid_buttons[0]
             /\ clicked' = clicked \cup {Head(cards)}
             /\ cards' = IF o \in {"processed", "modal_error_after_submit"}
                         THEN Tail(cards) ELSE cards
             /\ processed_successfully_count' =
                   IF o = "processed" THEN processed_successfully_count + 1
                   ELSE processed_successfully_count
             /\ IF loop_i + 1 = Len(initial_buttons)
                THEN cpc' = "done" /\ loopEnd' = "exhausted"
                ELSE UNCHANGED <<cpc, loopEnd>>
    /\ UNCHANGED initial_buttons
    /\ UNCHANGED notCourseVars

InitCourses ==
    /\ RetryInit
    /\ MainOff
    /\ SaaOff
    /\ WatchOff
    /\ MenuOff
    /\ PartsOff
    /\ cpc = "start"
    /\ cards \in Pages
    /\ initial_buttons = <<>>
    /\ loop_i = 0
    /\ processed_successfully_count = 0
    /\ clicked = {}
    /\ loopEnd = "none"

NextCourses == LoopStart \/ LoopIteration

SpecCourses == InitCourses /\ [][NextCourses]_vars

\* C19: when the loop has run all its iterations (no break, no exception),
\* every course that had a valid record button when the loop began has had
\* its button taken for a click, whatever failed for the other courses.
C19_EveryCourseAttempted ==
    (cpc = "done" /\ loopEnd = "exhausted")
       => \A i \in DOMAIN initial_buttons : initial_buttons[i] \in clicked


(***************************************************************************)
(* ipmenu.py: acquire_single_instance_lock (lines 287-303) and __main__    *)
(* (lines 1655-1676).  The lock file is taken to stay in place while a     *)
(* process holds it.                                                       *)
(***************************************************************************)
CanLock_Always(holders) == TRUE

\* flock(LOCK_EX | LOCK_NB), line 293: granted iff no other open file holds it
CanLock(holders) == holders = {}

\* a process is started (launchd, the user, or reload_app's execv) and opens
\* the lock file, line 291
Launch ==
    /\ \E p \in Procs :
          /\ proc[p] \in {"idle", "exited"}
          /\ proc' = [proc EXCEPT ![p] = "opened"]
          /\ refused' = refused \ {p}
    /\ UNCHANGED lockHolder
    /\ UNCHANGED <<notMenuVars, trackerVars, qualityVars>>

\* lines 292-303 and 1656-1657: the lock is taken, or the process exits
TryLock ==
    /\ \E p \in Procs :
          /\ proc[p] = "opened"
          /\ IF CanLock(lockHolder)
             THEN /\ lockHolder' = lockHolder \cup {p}
                  /\ proc' = [proc EXCEPT ![p] = "locked"]
                  /\ UNCHANGED refused
             ELSE /\ refused' = refused \cup {p}
                  /\ proc' = [proc EXCEPT ![p] = "exited"]
                  /\ UNCHANGED lockHolder
    /\ UNCHANGED <<notMenuVars, trackerVars, qualityVars>>

\* lines 1659-1676: IPMenuApp(cfg) and app.run()
CreateApp ==
    /\ \E p \in Procs :
          /\ proc[p] = "locked"
          /\ proc' = [proc EXCEPT ![p] = "app"]
    /\ UNCHANGED <<lockHolder, refused>>
    /\ UNCHANGED <<notMenuVars, trackerVars, qualityVars>>

\* the process ends (quit, kill, launchctl kickstart -k, execv): _cleanup at
\* exit (lines 294-300) or the closing of its descriptors releases the lock
ProcessEnds ==
    /\ \E p \in Procs :
          /\ proc[p] \in {"opened", "locked", "app"}
          /\ proc' = [proc EXCEPT ![p] = "exited"]
          /\ lockHolder' = lockHolder \ {p}
    /\ UNCHANGED refused
    /\ UNCHANGED <<notMenuVars, trackerVars, qualityVars>>

InitLock ==
    /\ RetryInit
    /\ MainOff
    /\ SaaOff
    /\ WatchOff
    /\ CourseOff
    /\ LockOff
    /\ PartsOff
    /\ TrackerOff
    /\ QualityOff

NextLock == Launch \/ TryLock \/ CreateApp \/ ProcessEnds

SpecLock == InitLock /\ [][NextLock]_vars

\* C12: at most one process runs the application at a time; a process past
\* acquire_single_instance_lock holds the lock until it ends, a process
\* refused the lock never creates the app, and no two processes hold the
\* lock.
C12_SingleInstance ==
    /\ Cardinality({p \in Procs : proc[p] = "app"}) <= 1
    /\ Cardinality(lockHolder) <= 1
    /\ \A p \in Procs :
          /\ proc[p] \in {"locked", "app"} => p \in lockHolder
          /\ p \in refused => proc[p] = "exited"
          /\ p \in lockHolder => proc[p] \in {"locked", "app"}

C12_Witness ==
    \E p \in Procs, q \in Procs :
       /\ proc[p] = "app" /\ lockHolder = {p}
       /\ q \in refused /\ proc[q] = "exited"


(***************************************************************************)
(* ipmenu.py: IPHistoryTracker, lines 175-221.  An entry is known by its   *)
(* ip; max_entries is positive, as in DEFAULT_CFG (line 70).               *)
(***************************************************************************)
MaxEntries == 2
MaxIps == 3

Ips == 1..MaxIps

LastN_KeepOldest(q, n) == SubSeq(q, 1, IF Len(q) < n THEN Len(q) ELSE n)

\* the slice q[-n:], lines 188, 196, 219
LastN(q, n) ==
    IF n = 0 \/ Len(q) <= n THEN q ELSE SubSeq(q, Len(q) - n + 1, Len(q))

\* lines 204-219: self.history after add_entry(ip)
HistoryAfterAdd(h, ip, n) ==
    IF h # <<>> /\ h[Len(h)] = ip THEN h
    ELSE IF Len(h) + 1 > n THEN LastN(Append(h, ip), n)
    ELSE Append(h, ip)

\* IPHistoryTracker.save, lines 192-199: `written` is false when the write
\* raised (the exception is swallowed)
FileAfterSave(f, h, n, written) == IF written THEN LastN(h, n) ELSE f

\* add_entry(ip), lines 201-221: nothing is saved when the ip is the last one
AddEntry(ip, written) ==
    /\ lastAdd' = [called |-> TRUE, ip |-> ip, before |-> history,
                   fileBefore |-> histFile]
    /\ history' = HistoryAfterAdd(history, ip, max_entries)
    /\ histFile' = IF history # <<>> /\ history[Len(history)] = ip THEN histFile
                   ELSE FileAfterSave(histFile,
                                      HistoryAfterAdd(history, ip, max_entries),
                                      max_entries, written)

\* some caller invokes add_entry on the tracker
AddEntryCall ==
    /\ tpc = "tracker"
    /\ \E ip \in Ips, written \in BOOLEAN : AddEntry(ip, written)
    /\ UNCHANGED <<tpc, max_entries, track_ip_history, imported_history, tracking, last_public_v4, successes>>
    /\ UNCHANGED <<notMenuVars, lockVars, qualityVars>>

\* a tracker with an empty history: IPHistoryTracker(max_entries) when there
\* is no history file
InitTracker ==
    /\ RetryInit
    /\ MainOff
    /\ SaaOff
    /\ WatchOff
    /\ CourseOff
    /\ LockOff
    /\ PartsOff
    /\ QualityOff
    /\ tpc = "tracker"
    /\ max_entries \in 1..MaxEntries
    /\ history = <<>>
    /\ histFile = <<>>
    /\ lastAdd = NoAdd
    /\ tracking = TRUE
    /\ last_public_v4 = 0
    /\ successes = 0
    /\ track_ip_history = TRUE
    /\ imported_history = "none"

NextTracker == AddEntryCall

SpecTracker == InitTracker /\ [][NextTracker]_vars

MaxFetches == 3

\* what an earlier run can have left in HISTORY_FILE
StoredHistories ==
    {h \in UNION {[1..n -> Ips] : n \in 0..MaxEntries} :
        \A i \in 1..(Len(h) - 1) : h[i] # h[i + 1]}

\* IPHistoryTracker.__init__ and load, lines 176-190
LoadHistory(f, n) == LastN(f, n)

\* fetch_public, lines 1405-1514, with public_mode ipv4: ip = 0 is a failed
\* fetch ("-"), which records nothing
FetchPublic ==
    /\ tpc = "app"
    /\ successes < MaxFetches
    /\ \E ip \in Ips \cup {0}, written \in BOOLEAN :
          IF ip = 0
          THEN UNCHANGED <<last_public_v4, successes, history, histFile, lastAdd>>
          ELSE LET changed == last_public_v4 # 0 /\ ip # last_public_v4
                   need_record == tracking /\ (changed \/ history = <<>>)
               IN /\ last_public_v4' = ip
                  /\ successes' = successes + 1
                  /\ IF need_record
                     THEN AddEntry(ip, written)
                     ELSE UNCHANGED <<history, histFile, lastAdd>>
    /\ UNCHANGED <<tpc, max_entries, track_ip_history, imported_history, tracking>>
    /\ UNCHANGED <<notMenuVars, lockVars, qualityVars>>

\* toggle_ip_history, lines 1031-1040
ToggleIpHistory ==
    /\ tpc = "app"
    /\ track_ip_history' = ~track_ip_history
    /\ IF ~track_ip_history /\ ~tracking
       THEN /\ tracking' = TRUE
            /\ history' = LoadHistory(histFile, max_entries)
       ELSE IF track_ip_history
       THEN /\ tracking' = FALSE
            /\ history' = <<>>
       ELSE UNCHANGED <<tracking, history>>
    /\ imported_history' = "none"
    /\ UNCHANGED <<tpc, max_entries, histFile, lastAdd, last_public_v4, successes>>
    /\ UNCHANGED <<notMenuVars, lockVars, qualityVars>>

\* clear_history, lines 1112-1121, when the user confirms
ClearHistory ==
    /\ tpc = "app"
    /\ tracking
    /\ history' = <<>>
    /\ \E written \in BOOLEAN :
          histFile' = FileAfterSave(histFile, <<>>, max_entries, written)
    /\ UNCHANGED <<tpc, max_entries, track_ip_history, imported_history, lastAdd, tracking, last_public_v4, successes>>
    /\ UNCHANGED <<notMenuVars, lockVars, qualityVars>>

\* IPMenuApp.__init__, lines 858-886
InitHistory ==
    /\ RetryInit
    /\ MainOff
    /\ SaaOff
    /\ WatchOff
    /\ CourseOff
    /\ LockOff
    /\ PartsOff
    /\ QualityOff
    /\ tpc = "app"
    /\ max_entries \in 1..MaxEntries
    /\ histFile \in StoredHistories
    /\ track_ip_history \in BOOLEAN
    /\ tracking = track_ip_history
    /\ imported_history = "none"
    /\ history = IF tracking THEN LoadHistory(histFile, max_entries) ELSE <<>>
    /\ lastAdd = NoAdd
    /\ last_public_v4 = 0
    /\ successes = 0

NextHistory == FetchPublic \/ ToggleIpHistory \/ ClearHistory

SpecHistory == InitHistory /\ [][NextHistory]_vars

\* C14: with tracking enabled, the first successful public-IP fetch after
\* start leaves the fetched IP as an entry of the history.
C14_FirstFetchRecorded ==
    [][(tpc = "app" /\ tracking /\ successes = 0 /\ successes' = 1)
          => \E i \in 1..Len(history') : history'[i] = last_public_v4']_vars


(***************************************************************************)
(* ipmenu.py: the quality monitor.  Timer callbacks and menu callbacks run *)
(* on the main thread, one at a time; every _quality_probe_bg runs in a    *)
(* thread of its own.  Statistics are known by their number of samples     *)
(* (0 is None or "unknown"), the menu item by the statistics it shows      *)
(* (0 is "Quality: -").                                                    *)
(***************************************************************************)
MaxSamples == 2

LockFree_Always(l) == TRUE

\* Lock.acquire of self._quality_lock, lines 1176, 1362
LockFree(l) == l = Unlocked

\* on_quality_tick, lines 1166-1170: starts a probe thread
OnQualityTick ==
    /\ tick = "idle"
    /\ quality_monitor
    /\ \E t \in Probes :
          /\ probePc[t] = "off"
          /\ probePc' = [probePc EXCEPT ![t] = "update"]
    /\ UNCHANGED <<enable_ping_monitor, imported_ping, quality_monitor, latencies, quality_last_stats, quality_dirty,
                   quality_lock, item_quality, probeStats, tick, tickStats,
                   titleWriters>>
    /\ UNCHANGED <<notMenuVars, lockVars, trackerVars>>

\* _quality_probe_bg, line 1174, with NetworkQualityMonitor.update, lines
\* 131-141: no monitor, a throttled call or a failed ping ends the thread
ProbeUpdate ==
    /\ \E t \in Probes, sampled \in BOOLEAN :
          /\ probePc[t] = "update"
          /\ IF quality_monitor /\ sampled
             THEN /\ latencies' = IF latencies < MaxSamples THEN latencies + 1
                                  ELSE latencies
                  /\ probePc' = [probePc EXCEPT ![t] = "get_stats"]
             ELSE /\ probePc' = [probePc EXCEPT ![t] = "off"]
                  /\ UNCHANGED latencies
    /\ UNCHANGED <<enable_ping_monitor, imported_ping, quality_monitor, quality_last_stats, quality_dirty,
                   quality_lock, item_quality, probeStats, tick, tickStats,
                   titleWriters>>
    /\ UNCHANGED <<notMenuVars, lockVars, trackerVars>>

\* line 1175: stats = self.quality_monitor.get_stats(); when the monitor was
\* switched off meanwhile the AttributeError ends the thread (line 1179)
ProbeGetStats ==
    /\ \E t \in Probes :
          /\ probePc[t] = "get_stats"
          /\ IF quality_monitor
             THEN /\ probeStats' = [probeStats EXCEPT ![t] = latencies]
                  /\ probePc' = [probePc EXCEPT ![t] = "acquire"]
             ELSE /\ probePc' = [probePc EXCEPT ![t] = "off"]
                  /\ UNCHANGED probeStats
    /\ UNCHANGED <<enable_ping_monitor, imported_ping, quality_monitor, latencies, quality_last_stats, quality_dirty,
                   quality_lock, item_quality, tick, tickStats, titleWriters>>
    /\ UNCHANGED <<notMenuVars, lockVars, trackerVars>>

\* line 1176: with self._quality_lock
ProbeAcquire ==
    /\ \E t \in Probes :
          /\ probePc[t] = "acquire"
          /\ LockFree(quality_lock)
          /\ quality_lock' = t
          /\ probePc' = [probePc EXCEPT ![t] = "write"]
    /\ UNCHANGED <<enable_ping_monitor, imported_ping, quality_monitor, latencies, quality_last_stats, quality_dirty,
                   item_quality, probeStats, tick, tickStats, titleWriters>>
    /\ UNCHANGED <<notMenuVars, lockVars, trackerVars>>

\* line 1177: self._quality_last_stats = stats
ProbeWrite ==
    /\ \E t \in Probes :
          /\ probePc[t] = "write"
          /\ quality_last_stats' = probeStats[t]
          /\ probePc' = [probePc EXCEPT ![t] = "release"]
    /\ UNCHANGED <<enable_ping_monitor, imported_ping, quality_monitor, latencies, quality_dirty, quality_lock,
                   item_quality, probeStats, tick, tickStats, titleWriters>>
    /\ UNCHANGED <<notMenuVars, lockVars, trackerVars>>

\* end of the with block of line 1176
ProbeRelease ==
    /\ \E t \in Probes :
          /\ probePc[t] = "release"
          /\ quality_lock' = Unlocked
          /\ probePc' = [probePc EXCEPT ![t] = "set"]
    /\ UNCHANGED <<enable_ping_monitor, imported_ping, quality_monitor, latencies, quality_last_stats, quality_dirty,
                   item_quality, probeStats, tick, tickStats, titleWriters>>
    /\ UNCHANGED <<notMenuVars, lockVars, trackerVars>>

\* line 1178: self._quality_dirty.set(); the thread ends
ProbeSetDirty ==
    /\ \E t \in Probes :
          /\ probePc[t] = "set"
          /\ quality_dirty' = TRUE
          /\ probePc' = [probePc EXCEPT ![t] = "off"]
    /\ UNCHANGED <<enable_ping_monitor, imported_ping, quality_monitor, latencies, quality_last_stats, quality_lock,
                   item_quality, probeStats, tick, tickStats, titleWriters>>
    /\ UNCHANGED <<notMenuVars, lockVars, trackerVars>>

\* on_tick, lines 1360-1361: a set event is cleared
TickClear ==
    /\ tick = "idle"
    /\ quality_dirty
    /\ quality_dirty' = FALSE
    /\ tick' = "acquire"
    /\ UNCHANGED <<enable_ping_monitor, imported_ping, quality_monitor, latencies, quality_last_stats, quality_lock,
                   item_quality, probePc, probeStats, tickStats, titleWriters>>
    /\ UNCHANGED <<notMenuVars, lockVars, trackerVars>>

\* line 1362: with self._quality_lock
TickAcquire ==
    /\ tick = "acquire"
    /\ LockFree(quality_lock)
    /\ quality_lock' = MainThread
    /\ tick' = "read"
    /\ UNCHANGED <<enable_ping_monitor, imported_ping, quality_monitor, latencies, quality_last_stats, quality_dirty,
                   item_quality, probePc, probeStats, tickStats, titleWriters>>
    /\ UNCHANGED <<notMenuVars, lockVars, trackerVars>>

\* line 1363 and the end of the with block
TickRead ==
    /\ tick = "read"
    /\ tickStats' = quality_last_stats
    /\ quality_lock' = Unlocked
    /\ tick' = "display"
    /\ UNCHANGED <<enable_ping_monitor, imported_ping, quality_monitor, latencies, quality_last_stats, quality_dirty,
                   item_quality, probePc, probeStats, titleWriters>>
    /\ UNCHANGED <<notMenuVars, lockVars, trackerVars>>

TickDisplay_ClearsLate ==
    /\ tick = "display"
    /\ IF quality_monitor
       THEN /\ item_quality' = tickStats
            /\ titleWriters' = titleWriters \cup {<<"main", "on_tick">>}
       ELSE UNCHANGED <<item_quality, titleWriters>>
    /\ tick' = "idle"
    /\ quality_dirty' = FALSE
    /\ UNCHANGED <<enable_ping_monitor, imported_ping, quality_monitor, latencies, quality_last_stats,
                   quality_lock, probePc, probeStats, tickStats>>
    /\ UNCHANGED <<notMenuVars, lockVars, trackerVars>>

\* lines 1364-1366 with update_quality_display, lines 1182-1189
TickDisplay ==
    /\ tick = "display"
    /\ IF quality_monitor
       THEN /\ item_quality' = tickStats
            /\ titleWriters' = titleWriters \cup {<<"main", "on_tick">>}
       ELSE UNCHANGED <<item_quality, titleWriters>>
    /\ tick' = "idle"
    /\ UNCHANGED <<enable_ping_monitor, imported_ping, quality_monitor, latencies, quality_last_stats, quality_dirty,
                   quality_lock, probePc, probeStats, tickStats>>
    /\ UNCHANGED <<notMenuVars, lockVars, trackerVars>>

\* toggle_quality_monitor, lines 1013-1029
ToggleQualityMonitor ==
    /\ tick = "idle"
    /\ enable_ping_monitor' = ~enable_ping_monitor
    /\ imported_ping' = "none"
    /\ IF ~enable_ping_monitor /\ ~quality_monitor
       THEN /\ quality_monitor' = TRUE
            /\ latencies' = 0
            /\ UNCHANGED <<item_quality, titleWriters>>
       ELSE IF enable_ping_monitor /\ quality_monitor
       THEN /\ quality_monitor' = FALSE
            /\ item_quality' = 0
            /\ titleWriters' = titleWriters \cup {<<"main", "toggle_quality_monitor">>}
            /\ UNCHANGED latencies
       ELSE UNCHANGED <<quality_monitor, latencies, item_quality, titleWriters>>
    /\ UNCHANGED <<quality_last_stats, quality_dirty, quality_lock, probePc,
                   probeStats, tick, tickStats>>
    /\ UNCHANGED <<notMenuVars, lockVars, trackerVars>>

\* IPMenuApp.__init__, lines 879-897
InitQuality ==
    /\ RetryInit
    /\ MainOff
    /\ SaaOff
    /\ WatchOff
    /\ CourseOff
    /\ LockOff
    /\ PartsOff
    /\ TrackerOff
    /\ enable_ping_monitor \in BOOLEAN
    /\ quality_monitor = enable_ping_monitor
    /\ imported_ping = "none"
    /\ latencies = 0
    /\ quality_last_stats = 0
    /\ quality_dirty = FALSE
    /\ quality_lock = Unlocked
    /\ item_quality = 0
    /\ probePc = [t \in Probes |-> "off"]
    /\ probeStats = [t \in Probes |-> 0]
    /\ tick = "idle"
    /\ tickStats = 0
    /\ titleWriters = {}

NextQuality ==
    \/ OnQualityTick
    \/ ProbeUpdate
    \/ ProbeGetStats
    \/ ProbeAcquire
    \/ ProbeWrite
    \/ ProbeRelease
    \/ ProbeSetDirty
    \/ TickClear
    \/ TickAcquire
    \/ TickRead
    \/ TickDisplay
    \/ ToggleQualityMonitor

SpecQuality == InitQuality /\ [][NextQuality]_vars

\* C11: the quality menu item is written only by on_tick and
\* toggle_quality_monitor on the main thread, and shows statistics only
\* after on_tick displayed them; a probe thread writes _quality_last_stats
\* only while it holds _quality_lock, and whatever statistics are stored or
\* shown were computed by the monitor (they never exceed its samples).
C11_ProbeNeverTouchesUI ==
    /\ titleWriters \subseteq {<<"main", "on_tick">>,
                               <<"main", "toggle_quality_monitor">>}
    /\ item_quality # 0 => <<"main", "on_tick">> \in titleWriters
    /\ \A t \in Probes : probePc[t] \in {"write", "release"} => quality_lock = t
    /\ tick = "read" => quality_lock = MainThread
    /\ quality_last_stats \in 0..MaxSamples
    /\ item_quality \in 0..MaxSamples

C11_Witness ==
    /\ item_quality = MaxSamples
    /\ <<"main", "on_tick">> \in titleWriters
    /\ \E t \in Probes : probePc[t] = "write"
    /\ ~quality_dirty


InitQualityOn == InitQuality /\ quality_monitor

NextQualityOn ==
    \/ OnQualityTick
    \/ ProbeUpdate
    \/ ProbeGetStats
    \/ ProbeAcquire
    \/ ProbeWrite
    \/ ProbeRelease
    \/ ProbeSetDirty
    \/ TickClear
    \/ TickAcquire
    \/ TickRead
    \/ TickDisplay

SpecQualityLive ==
    /\ InitQualityOn
    /\ [][NextQualityOn]_vars
    /\ WF_vars(TickClear)
    /\ WF_vars(TickAcquire)
    /\ WF_vars(TickRead)
    /\ WF_vars(TickDisplay)

\* no probe thread is running
NoProbeRunning == \A t \in Probes : probePc[t] = "off"

\* C22: with the monitor enabled, stats that a probe stored are never lost:
\* whenever on_tick is not running, the event is clear and no probe is
\* between its store and its set, the menu item shows exactly the stored
\* stats; and once the last probe has stored its stats and set the event, a
\* later on_tick displays them (unless another probe is started first).
C22_NoSampleLost ==
    /\ []((/\ tick = "idle"
           /\ ~quality_dirty
           /\ \A t \in Probes : probePc[t] \notin {"release", "set"})
             => item_quality = quality_last_stats)
    /\ (NoProbeRunning /\ quality_dirty)
          ~> (\/ (tick = "idle" /\ ~quality_dirty
                     /\ item_quality = quality_last_stats)
              \/ ~NoProbeRunning)

C22_Witness ==
    /\ NoProbeRunning
    /\ tick = "idle"
    /\ ~quality_dirty
    /\ quality_monitor
    /\ latencies = 2
    /\ quality_last_stats = 1
    /\ item_quality = quality_last_stats


(***************************************************************************)
(* ipmenu.py: the run-time switches.  A switch is the pair of its cfg      *)
(* value and the existence of its object (quality monitor or tracker).     *)
(***************************************************************************)
SwitchAfterToggle_KeepsCfg(sw) == sw

\* toggle_quality_monitor, lines 1014 and 1018-1028, and toggle_ip_history,
\* lines 1032 and 1036-1040: cfg is negated first, then the object follows
SwitchAfterToggle(sw) ==
    LET c == ~sw.cfg IN
    [cfg |-> c,
     obj |-> IF c /\ ~sw.obj THEN TRUE
             ELSE IF ~c /\ sw.obj THEN FALSE
             ELSE sw.obj]

\* import_settings, lines 1147 and 1152-1160: cfg.update(new_cfg), then the
\* two tests of a switch, each calling the toggle
SwitchAfterImport(v, c, o) ==
    LET s0 == [cfg |-> IF v = "none" THEN c ELSE v = "true", obj |-> o]
        s1 == IF s0.cfg /\ ~s0.obj THEN SwitchAfterToggle(s0) ELSE s0
        s2 == IF ~s1.cfg /\ s1.obj THEN SwitchAfterToggle(s1) ELSE s1
    IN s2

\* what the imported file says about a switch: nothing, true or false
ImportedValues == {"none", "true", "false"}

\* import_settings, lines 1132-1164, when the user picked a readable JSON
\* file; it ends with refresh_now (lines 1298-1304): a forced fetch_public
\* (ip = 0: failed) and one probe thread when the monitor exists (as long as
\* the model has a thread left for it)
ImportSettings ==
    /\ tick = "idle"
    /\ tpc = "app"
    /\ \E ping \in ImportedValues, hist \in ImportedValues, ip \in Ips \cup {0} :
          LET q == SwitchAfterImport(ping, enable_ping_monitor, quality_monitor)
              h == SwitchAfterImport(hist, track_ip_history, tracking)
              hist1 == IF h.obj = tracking THEN history
                       ELSE IF h.obj THEN LoadHistory(histFile, max_entries)
                       ELSE <<>>
              changed == last_public_v4 # 0 /\ ip # last_public_v4
              need_record == h.obj /\ (changed \/ hist1 = <<>>)
              free == {t \in Probes : probePc[t] = "off"}
          IN /\ ip # 0 => successes < MaxFetches
             /\ enable_ping_monitor' = q.cfg
             /\ quality_monitor' = q.obj
             /\ imported_ping' = ping
             /\ latencies' = IF q.obj /\ ~quality_monitor THEN 0 ELSE latencies
             /\ IF ~q.obj /\ quality_monitor
                THEN /\ item_quality' = 0
                     /\ titleWriters' =
                           titleWriters \cup {<<"main", "toggle_quality_monitor">>}
                ELSE UNCHANGED <<item_quality, titleWriters>>
             /\ track_ip_history' = h.cfg
             /\ tracking' = h.obj
             /\ imported_history' = hist
             /\ IF ip = 0
                THEN /\ history' = hist1
                     /\ UNCHANGED <<last_public_v4, successes, histFile, lastAdd>>
                ELSE /\ last_public_v4' = ip
                     /\ successes' = successes + 1
                     /\ IF need_record
                        THEN /\ lastAdd' = [called |-> TRUE, ip |-> ip, before |-> hist1,
                                            fileBefore |-> histFile]
                             /\ history' = HistoryAfterAdd(hist1, ip, max_entries)
                             /\ \E written \in BOOLEAN :
                                   histFile' =
                                      IF hist1 # <<>> /\ hist1[Len(hist1)] = ip
                                      THEN histFile
                                      ELSE FileAfterSave(histFile,
                                              HistoryAfterAdd(hist1, ip, max_entries),
                                              max_entries, written)
                        ELSE /\ history' = hist1
                             /\ UNCHANGED <<histFile, lastAdd>>
             /\ probePc' = IF q.obj /\ free # {}
                           THEN [probePc EXCEPT ![CHOOSE t \in free : \A u \in free : t <= u]
                                                    = "update"]
                           ELSE probePc
    /\ UNCHANGED <<tpc, max_entries>>
    /\ UNCHANGED <<quality_last_stats, quality_dirty, quality_lock, probeStats,
                   tick, tickStats>>
    /\ UNCHANGED <<notMenuVars, lockVars>>

\* IPMenuApp.__init__, lines 858-897, on a machine without a history file
InitSwitches ==
    /\ RetryInit
    /\ MainOff
    /\ SaaOff
    /\ WatchOff
    /\ CourseOff
    /\ LockOff
    /\ PartsOff
    /\ tpc = "app"
    /\ max_entries \in 1..MaxEntries
    /\ histFile = <<>>
    /\ track_ip_history \in BOOLEAN
    /\ tracking = track_ip_history
    /\ imported_history = "none"
    /\ history = IF tracking THEN LoadHistory(histFile, max_entries) ELSE <<>>
    /\ lastAdd = NoAdd
    /\ last_public_v4 = 0
    /\ successes = 0
    /\ enable_ping_monitor \in BOOLEAN
    /\ quality_monitor = enable_ping_monitor
    /\ imported_ping = "none"
    /\ latencies = 0
    /\ quality_last_stats = 0
    /\ quality_dirty = FALSE
    /\ quality_lock = Unlocked
    /\ item_quality = 0
    /\ probePc = [t \in Probes |-> "off"]
    /\ probeStats = [t \in Probes |-> 0]
    /\ tick = "idle"
    /\ tickStats = 0
    /\ titleWriters = {}

NextSwitches ==
    \/ ToggleQualityMonitor
    \/ ToggleIpHistory
    \/ ImportSettings

SpecSwitches == InitSwitches /\ [][NextSwitches]_vars

\* C24: after import_settings of a file whose enable_ping_monitor
\* (track_ip_history) is v, and until the next toggle, cfg holds v for the
\* key and the quality monitor (history tracker) exists iff v is true.
C24_ImportAppliesSwitches ==
    /\ imported_ping = "true" => (enable_ping_monitor /\ quality_monitor)
    /\ imported_ping = "false" => (~enable_ping_monitor /\ ~quality_monitor)
    /\ imported_history = "true" => (track_ip_history /\ tracking)
    /\ imported_history = "false" => (~track_ip_history /\ ~tracking)

MaxCalls == 3

\* the username and its upper and lower case, line 166
MaxVariants == 3

Statuses == {200, 401, 403, 404}

NeedsRefresh_AnyFailure(st) == st # 200

\* line 77: the status codes that start a re-authentication
NeedsRefresh(st) == st \in {401, 403}

\* some fetcher calls self._with_refresh(request_fn)
WithRefreshCall ==
    /\ rfpc \in {"idle", "returned", "raised"}
    /\ rfCalls < MaxCalls
    /\ rfCalls' = rfCalls + 1
    /\ rfpc' = "request"
    /\ responses' = <<>>
    /\ reauths' = 0
    /\ auth_attempts' = 0
    /\ login_ok' = FALSE
    /\ returned' = 0
    /\ UNCHANGED <<notPartVars, rateVars, asnVars, sapVars>>

\* lines 76-77 and 80: resp = request_fn(); request_fn may raise, any other
\* status than 401 and 403 is returned
FirstRequest ==
    /\ rfpc = "request"
    /\ \E raises \in BOOLEAN, st \in Statuses :
          IF raises
          THEN /\ rfpc' = "raised"
               /\ UNCHANGED <<responses, reauths, returned>>
          ELSE /\ responses' = <<st>>
               /\ IF NeedsRefresh(st)
                  THEN /\ rfpc' = "re_auth"
                       /\ reauths' = reauths + 1
                       /\ UNCHANGED returned
                  ELSE /\ rfpc' = "returned"
                       /\ returned' = 1
                       /\ UNCHANGED reauths
    /\ UNCHANGED <<auth_attempts, login_ok, rfCalls>>
    /\ UNCHANGED <<notPartVars, rateVars, asnVars, sapVars>>

\* _re_auth, lines 71-73, inside login_and_get_token, lines 163-173: one
\* _auth_flow_with_username per distinct variant of the username (`more`:
\* another variant is left); line 80 when every variant failed
AuthAttempt ==
    /\ rfpc = "re_auth"
    /\ auth_attempts < MaxVariants
    /\ \E ok \in BOOLEAN, more \in BOOLEAN :
          /\ auth_attempts' = auth_attempts + 1
          /\ IF ok
             THEN /\ login_ok' = TRUE
                  /\ rfpc' = "resend"
                  /\ UNCHANGED returned
             ELSE IF more /\ auth_attempts + 1 < MaxVariants
             THEN UNCHANGED <<login_ok, rfpc, returned>>
             ELSE /\ login_ok' = FALSE
                  /\ rfpc' = "returned"
                  /\ returned' = 1
    /\ UNCHANGED <<responses, reauths, rfCalls>>
    /\ UNCHANGED <<notPartVars, rateVars, asnVars, sapVars>>

\* line 79: return request_fn()
SecondRequest ==
    /\ rfpc = "resend"
    /\ \E raises \in BOOLEAN, st \in Statuses :
          IF raises
          THEN /\ rfpc' = "raised"
               /\ UNCHANGED <<responses, returned>>
          ELSE /\ responses' = Append(responses, st)
               /\ returned' = 2
               /\ rfpc' = "returned"
    /\ UNCHANGED <<reauths, auth_attempts, login_ok, rfCalls>>
    /\ UNCHANGED <<notPartVars, rateVars, asnVars, sapVars>>

\* a client after its first login, line 507
InitRefresh ==
    /\ RetryInit
    /\ MainOff
    /\ SaaOff
    /\ WatchOff
    /\ CourseOff
    /\ MenuOff
    /\ RateOff
    /\ AsnOff
    /\ SapOff
    /\ rfpc = "idle"
    /\ responses = <<>>
    /\ reauths = 0
    /\ auth_attempts = 0
    /\ login_ok = FALSE
    /\ returned = 0
    /\ rfCalls = 0

NextRefresh == WithRefreshCall \/ FirstRequest \/ AuthAttempt \/ SecondRequest

SpecRefresh == InitRefresh /\ [][NextRefresh]_vars

\* C28: one call of _with_refresh sends the request at most twice and calls
\* the login flow at most once, only after a first response with status 401
\* or 403; the request is sent again only after that login succeeded, and
\* then its response is returned; in every other case the first response
\* is returned.
C28_AtMostOneRefresh ==
    /\ Len(responses) <= 2
    /\ reauths <= 1
    /\ reauths = 1 => (responses # <<>> /\ responses[1] \in {401, 403})
    /\ (rfpc \in {"resend", "returned"} /\ responses[1] \in {401, 403}) => reauths = 1
    /\ (rfpc = "resend" \/ Len(responses) = 2) => (reauths = 1 /\ login_ok)
    /\ rfpc = "returned" =>
          returned = IF responses[1] \in {401, 403} /\ login_ok THEN 2 ELSE 1

C28_Witness ==
    /\ rfpc = "returned"
    /\ responses = <<401, 403>>
    /\ returned = 2
    /\ reauths = 1
    /\ auth_attempts = 2


(***************************************************************************)
(* ipmenu.py: NetworkQualityMonitor.update, lines 131-141, called by the   *)
(* probe threads that on_quality_tick (line 1170) and refresh_now (line    *)
(* 1304) start.  The ping is taken to start at the time written to         *)
(* _last_check.                                                            *)
(***************************************************************************)
MaxTime == 5

\* the one second of line 132, in clock units
Window == 2

\* the clock advances (it runs only in this specification: elsewhere now = 0)
ClockTick ==
    /\ now >= Window
    /\ now < MaxTime
    /\ now' = now + 1
    /\ UNCHANGED <<last_check, updPc, pings>>
    /\ UNCHANGED <<notPartVars, asnVars, sapVars, refreshVars>>

\* a probe thread enters quality_monitor.update(), line 1174
UpdateCall ==
    /\ now >= Window
    /\ \E t \in Threads :
          /\ updPc[t] = "off"
          /\ updPc' = [updPc EXCEPT ![t] = "check"]
    /\ UNCHANGED <<now, last_check, pings>>
    /\ UNCHANGED <<notPartVars, asnVars, sapVars, refreshVars>>

\* lines 132-133: if time.time() - self._last_check < 1: return False
UpdateCheck ==
    /\ \E t \in Threads :
          /\ updPc[t] = "check"
          /\ updPc' = [updPc EXCEPT ![t] = IF now - last_check < Window
                                           THEN "off" ELSE "set"]
    /\ UNCHANGED <<now, last_check, pings>>
    /\ UNCHANGED <<notPartVars, asnVars, sapVars, refreshVars>>

\* lines 134-136: self._last_check = time.time(); latency = self.ping()
UpdatePing ==
    /\ \E t \in Threads :
          /\ updPc[t] = "set"
          /\ last_check' = now
          /\ pings' = pings \cup {<<t, now>>}
          /\ updPc' = [updPc EXCEPT ![t] = "ping"]
    /\ UNCHANGED now
    /\ UNCHANGED <<notPartVars, asnVars, sapVars, refreshVars>>

\* lines 137-141: the ping has returned, update returns
UpdateReturn ==
    /\ \E t \in Threads :
          /\ updPc[t] = "ping"
          /\ updPc' = [updPc EXCEPT ![t] = "off"]
    /\ UNCHANGED <<now, last_check, pings>>
    /\ UNCHANGED <<notPartVars, asnVars, sapVars, refreshVars>>

\* NetworkQualityMonitor.__init__, lines 110-115: _last_check = 0, long ago
InitRate ==
    /\ RetryInit
    /\ MainOff
    /\ SaaOff
    /\ WatchOff
    /\ CourseOff
    /\ MenuOff
    /\ AsnOff
    /\ SapOff
    /\ RefreshOff
    /\ now = Window
    /\ last_check = 0
    /\ updPc = [t \in Threads |-> "off"]
    /\ pings = {}

NextRate == ClockTick \/ UpdateCall \/ UpdateCheck \/ UpdatePing \/ UpdateReturn

SpecRate == InitRate /\ [][NextRate]_vars

\* C23: no two calls of update, concurrent ones included, both run ping
\* within one window of one second.
C23_OnePingPerWindow ==
    \A p \in pings, q \in pings :
       p # q => (p[2] - q[2] >= Window \/ q[2] - p[2] >= Window)


(***************************************************************************)
(* ipmenu.py: SapASNDB, lines 575-603, reloaded by try_offline (lines      *)
(* 1448-1458) after on_sapdb_maint (lines 1643-1648) marked it as not      *)
(* loaded.  A range is known by its family and its start address; v4 and   *)
(* v6 hold the start addresses of their tuples.                            *)
(***************************************************************************)
MaxRanges == 2
MaxStart == 2
MaxLoads == 2

Ranges == [fam : {4, 6}, start : 1..MaxStart]

\* the TSV files ensure_sapdb can have put in place: distinct ranges
TsvFiles ==
    {f \in UNION {[1..n -> Ranges] : n \in 0..MaxRanges} :
        \A i \in 1..Len(f), j \in 1..Len(f) : i # j => f[i] # f[j]}

\* _load_tsv, lines 605-619: the start addresses of one family, in file order
RECURSIVE StartsOf(_, _)
StartsOf(f, fam) ==
    IF f = <<>> THEN <<>>
    ELSE IF f[1].fam = fam THEN <<f[1].start>> \o StartsOf(Tail(f), fam)
    ELSE StartsOf(Tail(f), fam)

\* list.sort(key=lambda x: x[0]), lines 601-602
SortByStart(q) == SortSeq(q, LAMBDA a, b : a < b)

\* how often x occurs in q
Occurrences(q, x) == Cardinality({i \in 1..Len(q) : q[i] = x})

\* ensure_sapdb as seen by the database: the file stays, or a download
\* replaced it
FilesAfterEnsure(f) == {f} \cup TsvFiles

\* try_offline, lines 1449-1458, when ASNDB.loaded is false: ensure_sapdb,
\* then ASNDB.load (lines 590-603), which appends to v4 and v6
OfflineLoad ==
    /\ loads < MaxLoads
    /\ tsv # <<>>
    /\ ~loaded
    /\ \E f \in FilesAfterEnsure(tsv) :
          /\ f # <<>>
          /\ tsv' = f
          /\ v4' = SortByStart(v4 \o StartsOf(f, 4))
          /\ v4_keys' = SortByStart(v4 \o StartsOf(f, 4))
          /\ v6' = SortByStart(v6 \o StartsOf(f, 6))
          /\ v6_keys' = SortByStart(v6 \o StartsOf(f, 6))
    /\ loaded' = TRUE
    /\ loads' = loads + 1
    /\ UNCHANGED <<notPartVars, rateVars, sapVars, refreshVars>>

\* on_sapdb_maint, lines 1643-1648, when need_sapdb_update is true
SapdbMaint ==
    /\ tsv # <<>>
    /\ \E f \in FilesAfterEnsure(tsv) :
          /\ f # <<>>
          /\ tsv' = f
    /\ loaded' = FALSE
    /\ UNCHANGED <<v4, v4_keys, v6, v6_keys, loads>>
    /\ UNCHANGED <<notPartVars, rateVars, sapVars, refreshVars>>

\* ASNDB = SapASNDB(), line 640, with a TSV file in place
InitAsn ==
    /\ RetryInit
    /\ MainOff
    /\ SaaOff
    /\ WatchOff
    /\ CourseOff
    /\ MenuOff
    /\ RateOff
    /\ SapOff
    /\ RefreshOff
    /\ tsv \in TsvFiles \ {<<>>}
    /\ v4 = <<>>
    /\ v4_keys = <<>>
    /\ v6 = <<>>
    /\ v6_keys = <<>>
    /\ loaded = FALSE
    /\ loads = 0

NextAsn == OfflineLoad \/ SapdbMaint

SpecAsn == InitAsn /\ [][NextAsn]_vars

\* C26: whenever the database is loaded, v4 and v6 hold each range of the
\* TSV file exactly once and nothing else, and v4_keys / v6_keys are sorted
\* and equal, index by index, to the start addresses of v4 / v6.
C26_EachRangeOnce ==
    loaded =>
       /\ \A r \in Ranges :
             LET inFile == \E i \in 1..Len(tsv) : tsv[i] = r
                 q == IF r.fam = 4 THEN v4 ELSE v6
             IN Occurrences(q, r.start) = IF inFile THEN 1 ELSE 0
       /\ v4_keys = v4
       /\ v6_keys = v6
       /\ \A i \in 1..(Len(v4_keys) - 1) : v4_keys[i] <= v4_keys[i + 1]
       /\ \A i \in 1..(Len(v6_keys) - 1) : v6_keys[i] <= v6_keys[i + 1]


(***************************************************************************)
(* ipmenu.py: ensure_sapdb, lines 463-573, called by the _sapdb_bg thread  *)
(* (line 1009) and on the main thread by try_offline (line 1452) and       *)
(* on_sapdb_maint (line 1646).                                             *)
(***************************************************************************)
\* the positions between the acquire of line 465 and the finally of line 569
SapBody == {"need_update", "local_copy", "combined", "split"}

SapLockFree_Always(l) == TRUE

\* line 465: _sap_lock.acquire(blocking=False) succeeds
SapLockFree(l) == l = Unlocked

\* a thread calls ensure_sapdb
EnsureCall ==
    /\ \E t \in Threads :
          /\ sapPc[t] = "off"
          /\ sapPc' = [sapPc EXCEPT ![t] = "acquire"]
          /\ sapLog' = [sapLog EXCEPT ![t] = "none"]
    /\ UNCHANGED sap_lock
    /\ UNCHANGED <<notPartVars, rateVars, asnVars, refreshVars>>

\* lines 465-466: a held lock makes the call return at once
EnsureAcquire ==
    /\ \E t \in Threads :
          /\ sapPc[t] = "acquire"
          /\ IF SapLockFree(sap_lock)
             THEN /\ sap_lock' = t
                  /\ sapPc' = [sapPc EXCEPT ![t] = "need_update"]
                  /\ sapLog' = [sapLog EXCEPT ![t] = "body"]
             ELSE /\ sapPc' = [sapPc EXCEPT ![t] = "off"]
                  /\ sapLog' = [sapLog EXCEPT ![t] = "refused"]
                  /\ UNCHANGED sap_lock
    /\ UNCHANGED <<notPartVars, rateVars, asnVars, refreshVars>>

\* one step of the body, lines 467-566: the early return of line 469, the
\* local copy of lines 471-483 (return at 481), the combined download of
\* lines 493-515 (return at 513), the split downloads of lines 517-566, or
\* an exception that leaves the body
EnsureBody ==
    /\ \E t \in Threads, out \in {"return", "raise", "next"} :
          /\ sapPc[t] \in SapBody
          /\ sapPc[t] = "split" => out # "next"
          /\ IF out = "next"
             THEN /\ sapPc' = [sapPc EXCEPT ![t] =
                                  CASE sapPc[t] = "need_update" -> "local_copy"
                                    [] sapPc[t] = "local_copy" -> "combined"
                                    [] OTHER -> "split"]
                  /\ UNCHANGED sapLog
             ELSE /\ sapPc' = [sapPc EXCEPT ![t] = "finally"]
                  /\ sapLog' = [sapLog EXCEPT ![t] =
                                   IF out = "raise" THEN "raised"
                                   ELSE IF sapPc[t] \in {"combined", "split"}
                                   THEN "downloaded"
                                   ELSE "up_to_date"]
    /\ UNCHANGED sap_lock
    /\ UNCHANGED <<notPartVars, rateVars, asnVars, refreshVars>>

\* lines 569-573: finally: _sap_lock.release()
EnsureFinally ==
    /\ \E t \in Threads :
          /\ sapPc[t] = "finally"
          /\ sap_lock' = Unlocked
          /\ sapPc' = [sapPc EXCEPT ![t] = "off"]
    /\ UNCHANGED sapLog
    /\ UNCHANGED <<notPartVars, rateVars, asnVars, refreshVars>>

\* _sap_lock = Lock(), line 84
InitSap ==
    /\ RetryInit
    /\ MainOff
    /\ SaaOff
    /\ WatchOff
    /\ CourseOff
    /\ MenuOff
    /\ RateOff
    /\ AsnOff
    /\ RefreshOff
    /\ sapPc = [t \in Threads |-> "off"]
    /\ sap_lock = Unlocked
    /\ sapLog = [t \in Threads |-> "none"]

NextSap == EnsureCall \/ EnsureAcquire \/ EnsureBody \/ EnsureFinally

SpecSap == InitSap /\ [][NextSap]_vars

\* C27: at most one thread is inside the body of ensure_sapdb, and it holds
\* _sap_lock; a call that found the lock held has returned without entering
\* the body; and when no call is under way the lock is free, whichever way
\* the holder left (return or exception).
C27_OneUpdaterAtATime ==
    /\ Cardinality({t \in Threads : sapPc[t] \in SapBody \cup {"finally"}}) <= 1
    /\ \A t \in Threads :
          /\ sapPc[t] \in SapBody \cup {"finally"} => sap_lock = t
          /\ sapPc[t] \in SapBody => sapLog[t] = "body"
          /\ sapLog[t] = "refused" => sapPc[t] = "off"
    /\ (\A t \in Threads : sapPc[t] \in {"off", "acquire"}) => sap_lock = Unlocked

C27_Witness ==
    \E t \in Threads, u \in Threads :
       /\ t # u
       /\ sapLog[t] = "raised" /\ sapPc[t] = "off"
       /\ sapPc[u] = "combined" /\ sap_lock = u

====
